---- MODULE Spec2Model ----
(***************************************************************************)
(* A model of opentoolflux: the time-series store (database.py), the      *)
(* import command (cli.py) and the measurement segmenter                  *)
(* (measurements.py).                                                     *)
(*                                                                         *)
(* A table (pandas DataFrame with the __TIMESTAMP__ index) is a record    *)
(*   [dtypes |-> column name -> declared type,                            *)
(*    rows   |-> sequence of [ts |-> instant in ns, v |-> column -> value]]*)
(* in index order.  Instants are integers counting nanoseconds since the  *)
(* epoch (datetime64[ns]).                                                 *)
(***************************************************************************)
EXTENDS Integers, Sequences, FiniteSets, TLC

VARIABLES
    \* ---- the import command (cli.py) and the files it works on
    src_files,      \* the files matched by conf.import_.src, in sorted path order
    conf,           \* the [import] section: columns (name -> type), timestamp_col
    db_file,        \* the content of database.feather, or NoFile
    pc,             \* where the import invocation is: "idle", "read", "merged"
    db,             \* import_'s local db
    new_data,       \* import_'s local new_data
    exit_code,      \* how the last invocation ended: "none", "ok", "error"
    same_inputs,    \* no source file has changed since the last completed import
    \* ---- update() called as a function: arguments and results
    original,       \* first argument of update
    databases,      \* the *databases batches, a sequence of tables
    updated,        \* "pending", the returned table, or the raised error
    updatedAgain,   \* the same batches merged once more into `updated`
    \* ---- read_src_file() called as a function: arguments and result
    src_file,       \* the delimited text file: [columns, rows of raw cells]
    dtypes,         \* column name -> declared type (the keys are usecols)
    timestamp_col,  \* the column that becomes the index
    data,           \* "pending", the returned table, or the raised error
    \* ---- iter_measurements(): arguments and the generator's state
    seg_db,             \* the filtered table handed to iter_measurements
    max_gap,            \* timedeltas, in the unit of the instants
    min_duration,
    max_duration,
    seg_pc,             \* "created", "running" or "exhausted"
    grouped,            \* the groups the for loop has gone through, in order
    measurement_metas,  \* one [duration, accept] per group gone through
    yielded,            \* the measurements yielded so far, in order
    \* ---- filter_db() called as a function: arguments and result
    flt_db,         \* the table handed to filter_db
    filters,        \* column name -> Filter
    filtered,       \* "pending", the returned table, or the raised error
    \* ---- estimate_vol_flux() called as a function: arguments and result
    flux_measurement,   \* estimate_vol_flux's measurement: one gas's series
    t0_delay,       \* timedeltas, in seconds
    t0_margin,
    tau_s,          \* seconds
    h,              \* metres
    estimate,       \* "pending", the returned VolFluxEstimate, or the error
    \* ---- convert_datetime() and the [import] validator called as functions
    series,         \* the series s: [dtype, values]
    converted,      \* "pending", the converted instants, or the raised error
    validated,      \* "pending", Ok, or the BadConfig raised by the validator
    \* ---- the sort underneath sort_index (one build = one function)
    argsortMemo,    \* key sequence -> the permutation argsort returned for it
    \* ---- find_files() called as a function: the directory tree, argument, result
    entries,        \* the paths that exist under the working directory
    glob_patterns,  \* the list of glob patterns
    found,          \* "pending" or the returned list of paths
    \* ---- update() with the batches merged one call at a time
    oneByOne,       \* "pending", or update(...update(original, b1)..., bn)
    \* ---- two import invocations working on the same database file
    invocations,    \* invocation -> [pc, src_files, db, new_data, exit_code]
    events,         \* the reads and saves of the database file, in order
    \* ---- the fluxes command from the accepted measurements on
    fluxes_measurements,  \* list(measurements): the accepted measurements, in order
    fluxes_conf,    \* the [fluxes] section, chamber_labels and [measurements]
    fluxes_file,    \* the content of fluxes.csv, or NoFile
    fluxes_result,  \* "pending", Ok, or the error the command ended with
    \* ---- the commands that need the database file, and their outputs
    outputs,        \* which of fluxes.csv and the plot directories exist
    command         \* the last such command run: [name, result]

cliVars == <<src_files, conf, db_file, pc, db, new_data, exit_code, same_inputs>>
updVars == <<original, databases, updated, updatedAgain>>
readVars == <<src_file, dtypes, timestamp_col, data>>
segVars == <<seg_db, max_gap, min_duration, max_duration,
             seg_pc, grouped, measurement_metas, yielded>>
fltVars == <<flt_db, filters, filtered>>
fluxVars == <<flux_measurement, t0_delay, t0_margin, tau_s, h, estimate>>
convVars == <<series, converted, validated>>
findVars == <<entries, glob_patterns, found>>
foldVars == <<oneByOne>>
concVars == <<invocations, events>>
fxVars == <<fluxes_measurements, fluxes_conf, fluxes_file, fluxes_result>>
cmdVars == <<outputs, command>>
vars == <<src_files, conf, db_file, pc, db, new_data, exit_code, same_inputs,
          original, databases, updated, updatedAgain,
          src_file, dtypes, timestamp_col, data,
          seg_db, max_gap, min_duration, max_duration,
          seg_pc, grouped, measurement_metas, yielded,
          flt_db, filters, filtered,
          flux_measurement, t0_delay, t0_margin, tau_s, h, estimate,
          series, converted, validated, argsortMemo,
          entries, glob_patterns, found, oneByOne, invocations, events,
          fluxes_measurements, fluxes_conf, fluxes_file, fluxes_result,
          outputs, command>>

----------------------------------------------------------------------------
(* Bounds of the model *)

\* the import command finds 0..MaxSrcFiles source files
MaxSrcFiles == 2
\* timestamps of the tables handed to update are 1..MaxTs (in ns)
MaxTs == 2
\* update is called with 0..MaxBatches batches
MaxBatches == 2
\* a source file has 0..MaxFileRows rows
MaxFileRows == 2
\* a numeric cell of a source file is the decimal sec + qus/4 microseconds,
\* sec in 0..MaxSec whole seconds and qus in 0..MaxQus quarter microseconds
MaxSec == 1
MaxQus == 3
\* the table handed to iter_measurements has 0..MaxSegRows rows at instants
\* 0..MaxSegTs; max_gap is in 1..MaxGap, the duration limits in 0..MaxDuration
MaxSegRows == 3
MaxSegTs == 4
MaxGap == 2
MaxDuration == 3

----------------------------------------------------------------------------
(* Generic helpers *)

Range(s) == {s[i] : i \in DOMAIN s}

Min(S) == CHOOSE x \in S : \A y \in S : x <= y

RECURSIVE Orderings(_)
\* every sequence that lists the elements of the finite set S once
Orderings(S) ==
    IF S = {} THEN {<<>>}
    ELSE UNION {{<<x>> \o q : q \in Orderings(S \ {x})} : x \in S}

RECURSIVE Concat(_)
\* the concatenation of a sequence of sequences
Concat(ss) == IF ss = <<>> THEN <<>> ELSE Head(ss) \o Concat(Tail(ss))

Pending == [status |-> "pending"]
Ok == [status |-> "ok"]
\* the value of a variable that the running specification does not use
Idle == [status |-> "idle"]

CliIdle ==
    /\ src_files = <<>> /\ conf = Idle /\ db_file = Idle /\ pc = "off"
    /\ db = Idle /\ new_data = Idle /\ exit_code = "none" /\ same_inputs = FALSE

UpdIdle ==
    original = Idle /\ databases = Idle /\ updated = Idle /\ updatedAgain = Idle

ReadIdle ==
    src_file = Idle /\ dtypes = Idle /\ timestamp_col = Idle /\ data = Idle

SegIdle ==
    /\ seg_db = Idle /\ max_gap = 0 /\ min_duration = 0 /\ max_duration = 0
    /\ seg_pc = "idle" /\ grouped = <<>> /\ measurement_metas = <<>>
    /\ yielded = <<>>

FltIdle ==
    flt_db = Idle /\ filters = Idle /\ filtered = Idle

FluxIdle ==
    /\ flux_measurement = Idle /\ t0_delay = 0 /\ t0_margin = 0
    /\ tau_s = 0 /\ h = 0 /\ estimate = Idle

ConvIdle ==
    series = Idle /\ converted = Idle /\ validated = Idle

FindIdle ==
    entries = Idle /\ glob_patterns = Idle /\ found = Idle

FoldIdle ==
    oneByOne = Idle

ConcIdle ==
    invocations = Idle /\ events = <<>>

FxIdle ==
    /\ fluxes_measurements = Idle /\ fluxes_conf = Idle
    /\ fluxes_file = Idle /\ fluxes_result = Idle

CmdIdle ==
    outputs = Idle /\ command = Idle

----------------------------------------------------------------------------
(* database.py: the table operations under update *)

\* DataFrame.index as a sequence of instants
Index(rows) == [i \in DOMAIN rows |-> rows[i].ts]

\* Index.is_monotonic_increasing (non-strict)
IsMonotonicIncreasing(keys) ==
    \A i \in 1..(Len(keys) - 1) : keys[i] <= keys[i + 1]

\* Index.is_unique
IsUnique(keys) == \A i, j \in DOMAIN keys : keys[i] = keys[j] => i = j

RECURSIVE SortedOrders(_, _)
\* the orders of the positions of `keys` that list the keys in `todo`
\* ascending, positions of equal keys in any relative order
SortedOrders(keys, todo) ==
    IF todo = {} THEN {<<>>}
    ELSE LET m == Min(todo)
             P == {i \in DOMAIN keys : keys[i] = m}
         IN  UNION {{o \o rest : rest \in SortedOrders(keys, todo \ {m})}
                    : o \in Orderings(P)}

\* the one order a stable sort returns: equal keys keep their input order
StableOrder(keys) ==
    CHOOSE p \in SortedOrders(keys, Range(keys)) :
        \A i, j \in DOMAIN p : (i < j /\ keys[p[i]] = keys[p[j]]) => p[i] < p[j]

\* What DataFrame.sort_index() can do to an index `keys` (database.py:153).
\* pandas returns the frame as it is when the index is already monotonic
\* increasing; otherwise it takes numpy's argsort with kind="quicksort", the
\* default of sort_index, which is not a stable sort: the relative order of
\* rows with equal keys is unspecified.
ArgsortOutcomes(keys) ==
    IF IsMonotonicIncreasing(keys)
    THEN {[i \in DOMAIN keys |-> i]}
    ELSE SortedOrders(keys, Range(keys))

\* The sort is a function: the same index sorted twice comes out the same.
\* argsortMemo holds what it has returned so far.
ArgsortChoices(memo, keys) ==
    IF keys \in DOMAIN memo THEN {memo[keys]} ELSE ArgsortOutcomes(keys)

Remember(memo, keys, p) ==
    IF Cardinality(ArgsortOutcomes(keys)) > 1 THEN (keys :> p) @@ memo ELSE memo

\* rows taken in the order p
Take(rows, p) == [i \in DOMAIN p |-> rows[p[i]]]

\* Index.duplicated(keep="last"): TRUE at every row but the last of its key
DuplicatedKeepLast(keys) ==
    [i \in DOMAIN keys |-> \E j \in DOMAIN keys : j > i /\ keys[j] = keys[i]]

RECURSIVE SelectRows(_, _)
\* rows[mask]: the rows where mask is TRUE, in order
SelectRows(rows, mask) ==
    IF rows = <<>> THEN <<>>
    ELSE (IF Head(mask) THEN <<Head(rows)>> ELSE <<>>)
         \o SelectRows(Tail(rows), Tail(mask))

\* the concatenation returned with its duplicates
KeepAllRows(rows) == rows

\* concatenated[~concatenated.index.duplicated(keep="last")]
DropAllButLast(rows) ==
    LET dup == DuplicatedKeepLast(Index(rows))
    IN  SelectRows(rows, [i \in DOMAIN rows |-> ~dup[i]])

ValueError(msg) == [error |-> "ValueError", msg |-> msg]

IsError(x) == "error" \in DOMAIN x
IsTable(x) == "rows" \in DOMAIN x

RECURSIVE SchemaCheckColumnsOnly(_, _)
\* update without the comparison of dtypes (database.py:148-152 left out)
SchemaCheckColumnsOnly(orig, dbs) ==
    IF dbs = <<>> THEN Ok
    ELSE IF DOMAIN orig.dtypes # DOMAIN Head(dbs).dtypes
         THEN ValueError("Unequal set of columns")
         ELSE SchemaCheckColumnsOnly(orig, Tail(dbs))

\* the schema checks of update, batch by batch: the first failing check raises
RECURSIVE SchemaCheck(_, _)
SchemaCheck(orig, dbs) ==
    IF dbs = <<>> THEN Ok
    ELSE LET batch == Head(dbs)
         IN  IF DOMAIN orig.dtypes # DOMAIN batch.dtypes
             THEN ValueError("Unequal set of columns")
             ELSE IF orig.dtypes # batch.dtypes
             THEN ValueError("Conflicting dtypes")
             ELSE SchemaCheck(orig, Tail(dbs))

\* pd.concat([original, *databases])
ConcatRows(orig, dbs) == orig.rows \o Concat([i \in DOMAIN dbs |-> dbs[i].rows])

\* update(original, *databases) when argsort answers with the order p
Update(orig, dbs, p) ==
    LET check == SchemaCheck(orig, dbs)
    IN  IF check # Ok THEN check
        ELSE [dtypes |-> orig.dtypes,
              rows   |-> DropAllButLast(Take(ConcatRows(orig, dbs), p))]

\* the index update hands to the sort
UpdateKeys(orig, dbs) == Index(ConcatRows(orig, dbs))

----------------------------------------------------------------------------
(* database.py: reading a source file *)

MICROSECONDS_PER_SECOND == 1000000
\* datetime64[us] -> datetime64[ns]
NANOSECONDS_PER_MICROSECOND == 1000

\* An empty cell of a source file, and the missing value (NaN) it parses to.
NA == [na |-> TRUE]

\* A numeric cell: the decimal text of sec + qus/4 microseconds.
Num(sec, qus) == [sec |-> sec, qus |-> qus]

IsNA(x) == "na" \in DOMAIN x

\* numpy dtype.kind of a declared type
Kind(dtype) ==
    CASE dtype \in {"float16", "float32", "float64"} -> "f"
      [] dtype \in {"uint8", "uint16", "uint32", "uint64"} -> "u"
      [] dtype \in {"int8", "int16", "int32", "int64"} -> "i"
      [] dtype = "bool" -> "b"
      [] OTHER -> "O"

\* the number of values of an unsigned integer type
Modulus(dtype) ==
    CASE dtype = "uint8" -> 256
      [] dtype = "uint16" -> 65536
      [] OTHER -> 0

\* read_csv can give the cell this declared type: an integer column takes
\* neither an empty cell nor a decimal with a fraction
CanParse(dtype, cell) ==
    CASE Kind(dtype) = "u" -> ~IsNA(cell) /\ cell.qus = 0
      [] OTHER -> TRUE

\* an unsigned integer column that clips a value to the range of its type
ParseCellSaturating(dtype, cell) ==
    CASE Kind(dtype) = "u" ->
            IF cell.sec < 0 THEN 0
            ELSE IF cell.sec >= Modulus(dtype) THEN Modulus(dtype) - 1
            ELSE cell.sec
      [] OTHER -> cell

\* the parsed value: an unsigned integer wraps around, a float keeps the
\* decimal (NaN for an empty cell)
ParseCell(dtype, cell) ==
    CASE Kind(dtype) = "u" -> cell.sec % Modulus(dtype)
      [] OTHER -> cell

\* pd.read_csv(path, sep=sep, dtype=dtypes, usecols=list(dtypes)): the frame
\* [dtypes, rows] with the columns of dtypes only, in file order, or ValueError
ReadCsv(file, dts) ==
    IF ~(DOMAIN dts \subseteq file.columns)
    THEN ValueError("Usecols do not match columns")
    ELSE IF \E i \in DOMAIN file.rows : \E c \in DOMAIN dts :
                ~CanParse(dts[c], file.rows[i][c])
    THEN ValueError("could not convert")
    ELSE [dtypes |-> dts,
          rows   |-> [i \in DOMAIN file.rows |->
                        [c \in DOMAIN dts |-> ParseCell(dts[c], file.rows[i][c])]]]

\* Series.round() replaced by truncation
TruncQuarters(q) == q \div 4

\* Series.round(): q/4 rounded to the nearest integer, a half to the even one
RoundQuarters(q) ==
    LET f == q \div 4
        r == q % 4
    IN  IF r < 2 THEN f
        ELSE IF r > 2 THEN f + 1
        ELSE IF f % 2 = 0 THEN f ELSE f + 1

\* float64 seconds * 1e6, rounded, as datetime64[us], then as datetime64[ns]
FloatToInstant(x) ==
    RoundQuarters(x.sec * MICROSECONDS_PER_SECOND * 4 + x.qus)
        * NANOSECONDS_PER_MICROSECOND

\* integer -> datetime64[ns] by astype: the integer counts nanoseconds
IntToInstant(n) == n

\* datetime64[ms] -> datetime64[ns]
NANOSECONDS_PER_MILLISECOND == 1000000

\* A text timestamp: the wall-clock time it spells, in milliseconds since
\* 1970-01-01T00:00:00, and its UTC offset suffix ("" for none).
Text(wall, off) == [wall |-> wall, off |-> off]

\* the offset suffixes the parser knows, and the offset they stand for
OffsetMillis(off) ==
    CASE off = "+0100" -> 3600000
      [] off = "-0800" -> -28800000
      [] OTHER -> 0

IsIso8601(x) == x.off \in {"", "Z", "+0000", "+0100", "-0800"}

\* pd.to_datetime with utc=False semantics: the wall-clock time as it is
WallMillis(x) == x.wall

\* pd.to_datetime(s, utc=True, format="ISO8601"): the wall-clock time moved
\* by the offset to UTC (no offset is read as UTC)
ToUtcMillis(x) == x.wall - OffsetMillis(x.off)

\* .dt.tz_localize(None).astype("datetime64[ns]")
TextToInstant(x) == ToUtcMillis(x) * NANOSECONDS_PER_MILLISECOND

\* convert_datetime without the float64 requirement
ConvertDatetimeAnyFloat(dtype, values) ==
    CASE Kind(dtype) = "f" ->
            [instants |-> [i \in DOMAIN values |-> FloatToInstant(values[i])]]
      [] Kind(dtype) \in {"i", "u"} ->
            [instants |-> [i \in DOMAIN values |-> IntToInstant(values[i])]]
      [] Kind(dtype) = "O" ->
            IF \E i \in DOMAIN values : ~IsIso8601(values[i])
            THEN ValueError("time data doesn't match format")
            ELSE [instants |-> [i \in DOMAIN values |-> TextToInstant(values[i])]]
      [] OTHER ->
            [error |-> "NotImplementedError", msg |-> "Cannot make datetime from dtype"]

\* convert_datetime(s) for a column of declared type dtype: the instants,
\* or the error raised
ConvertDatetime(dtype, values) ==
    CASE Kind(dtype) = "f" ->
            IF dtype # "float64"
            THEN ValueError("floating-point timestamp data must be float64")
            ELSE [instants |-> [i \in DOMAIN values |-> FloatToInstant(values[i])]]
      [] Kind(dtype) \in {"i", "u"} ->
            [instants |-> [i \in DOMAIN values |-> IntToInstant(values[i])]]
      [] Kind(dtype) = "O" ->
            IF \E i \in DOMAIN values : ~IsIso8601(values[i])
            THEN ValueError("time data doesn't match format")
            ELSE [instants |-> [i \in DOMAIN values |-> TextToInstant(values[i])]]
      [] OTHER ->
            [error |-> "NotImplementedError", msg |-> "Cannot make datetime from dtype"]

\* index[index.duplicated()][0] of a sorted index: the first key that repeats
FirstDuplicate(keys) ==
    keys[Min({i \in DOMAIN keys : \E j \in DOMAIN keys : j < i /\ keys[j] = keys[i]})]

DuplicateTimestamp(ts) ==
    [error |-> "ValueError", msg |-> "Duplicate timestamp", ts |-> ts]

\* _dataframe_to_db with the uniqueness test made on the raw column, before
\* conversion, instead of on the converted index
DataframeToDbRawUnique(frame, tcol, p) ==
    LET conv == ConvertDatetime(frame.dtypes[tcol],
                                [i \in DOMAIN frame.rows |-> frame.rows[i][tcol]])
        cols == DOMAIN frame.dtypes \ {tcol}
        rows == [i \in DOMAIN frame.rows |->
                    [ts |-> conv.instants[i],
                     v  |-> [c \in cols |-> frame.rows[i][c]]]]
        sorted == Take(rows, p)
        raw == [i \in DOMAIN frame.rows |-> frame.rows[i][tcol]]
    IN  IF IsError(conv) THEN conv
        ELSE IF ~IsUnique(raw)
        THEN DuplicateTimestamp(FirstDuplicate(Index(sorted)))
        ELSE [dtypes |-> [c \in cols |-> frame.dtypes[c]], rows |-> sorted]

\* _dataframe_to_db without sort_index: the rows stay in file order
DataframeToDbUnsorted(frame, tcol, p) ==
    LET conv == ConvertDatetime(frame.dtypes[tcol],
                                [i \in DOMAIN frame.rows |-> frame.rows[i][tcol]])
        cols == DOMAIN frame.dtypes \ {tcol}
        rows == [i \in DOMAIN frame.rows |->
                    [ts |-> conv.instants[i],
                     v  |-> [c \in cols |-> frame.rows[i][c]]]]
    IN  IF IsError(conv) THEN conv
        ELSE IF ~IsUnique(Index(rows))
        THEN DuplicateTimestamp(FirstDuplicate(Index(Take(rows, p))))
        ELSE [dtypes |-> [c \in cols |-> frame.dtypes[c]], rows |-> rows]

\* _dataframe_to_db(data, timestamp_col) when argsort answers with the order p
\* of the converted timestamps
DataframeToDb(frame, tcol, p) ==
    LET conv == ConvertDatetime(frame.dtypes[tcol],
                                [i \in DOMAIN frame.rows |-> frame.rows[i][tcol]])
        cols == DOMAIN frame.dtypes \ {tcol}
        rows == [i \in DOMAIN frame.rows |->
                    [ts |-> conv.instants[i],
                     v  |-> [c \in cols |-> frame.rows[i][c]]]]
        sorted == Take(rows, p)
    IN  IF IsError(conv) THEN conv
        ELSE IF ~IsUnique(Index(sorted))
        THEN DuplicateTimestamp(FirstDuplicate(Index(sorted)))
        ELSE [dtypes |-> [c \in cols |-> frame.dtypes[c]], rows |-> sorted]

\* the index _dataframe_to_db hands to the sort (none when conversion fails)
DbKeys(frame, tcol) ==
    LET conv == ConvertDatetime(frame.dtypes[tcol],
                                [i \in DOMAIN frame.rows |-> frame.rows[i][tcol]])
    IN  IF IsError(conv) THEN <<>> ELSE conv.instants

\* read_src_file(path, dtypes, timestamp_col, sep)
ReadSrcFile(file, dts, tcol, p) ==
    LET frame == ReadCsv(file, dts)
    IN  IF IsError(frame) THEN frame ELSE DataframeToDb(frame, tcol, p)

\* the index read_src_file hands to the sort
ReadKeys(file, dts, tcol) ==
    LET frame == ReadCsv(file, dts)
    IN  IF IsError(frame) THEN <<>> ELSE DbKeys(frame, tcol)

\* create_empty_db that leaves the timestamp column among the columns
CreateEmptyDbKeepingTimestampColumn(dts, tcol) == [dtypes |-> dts, rows |-> <<>>]

\* create_empty_db(dtypes, timestamp_col)
CreateEmptyDb(dts, tcol) == DataframeToDb([dtypes |-> dts, rows |-> <<>>], tcol, <<>>)

----------------------------------------------------------------------------
(* read_src_file() as a function: inputs drawn at Init *)

\* the cells of the timestamp column and of column B
TimeCells == {Num(s, q) : s \in 0..MaxSec, q \in 0..MaxQus}
ValueCells == {NA, Num(1, 0)}

\* source files with the columns T, B and X; X is not declared in any config
FileRows == [T : TimeCells, B : ValueCells, X : {Num(0, 0)}]
SrcFiles ==
    {[columns |-> {"T", "B", "X"}, rows |-> rs]
        : rs \in UNION {[1..n -> FileRows] : n \in 0..MaxFileRows}}

TimestampDtypes == {"float64", "float32", "uint8"}
ReadConfigs ==
    {[T |-> t] : t \in TimestampDtypes}
        \cup {[T |-> t, B |-> b] : t \in TimestampDtypes, b \in {"float64", "uint8"}}

ReadInit ==
    /\ src_file \in SrcFiles
    /\ dtypes \in ReadConfigs
    /\ timestamp_col = "T"
    /\ data = Pending
    /\ argsortMemo = <<>>
    /\ UpdIdle
    /\ SegIdle
    /\ CliIdle
    /\ FltIdle
    /\ FluxIdle
    /\ ConvIdle
    /\ FindIdle
    /\ FoldIdle
    /\ ConcIdle
    /\ FxIdle
    /\ CmdIdle

\* data = read_src_file(src_file, dtypes, timestamp_col, sep)
CallReadSrcFile ==
    /\ data = Pending
    /\ \E p \in ArgsortOutcomes(ReadKeys(src_file, dtypes, timestamp_col)) :
        data' = ReadSrcFile(src_file, dtypes, timestamp_col, p)
    /\ UNCHANGED <<src_file, dtypes, timestamp_col, argsortMemo>>
    /\ UNCHANGED <<cliVars, updVars, segVars,
                 fltVars, fluxVars, convVars>>
    /\ UNCHANGED <<findVars, foldVars, concVars, fxVars, cmdVars>>

SpecRead == ReadInit /\ [][CallReadSrcFile]_vars

----------------------------------------------------------------------------
(* update() as a function: inputs drawn at Init *)

RECURSIVE SortedSeq(_)
\* the elements of a set of integers, ascending
SortedSeq(S) ==
    IF S = {} THEN <<>> ELSE <<Min(S)>> \o SortedSeq(S \ {Min(S)})

\* the schemas of test_update_db
BaseDtypes == [B |-> "uint8"]
OtherDtypes == {[B |-> "uint16"], [B |-> "uint8", C |-> "uint8"], <<>>}

\* a stored table: unique ascending index; every cell of a row holds `val`
MkTable(dts, tsSet, val) ==
    LET ts == SortedSeq(tsSet)
    IN  [dtypes |-> dts,
         rows   |-> [i \in DOMAIN ts |->
                        [ts |-> ts[i], v |-> [c \in DOMAIN dts |-> val]]]]

\* Batches of update: batch i holds the value i in every cell, so that the
\* source of a merged row can be told; at most one batch has another schema.
BatchLists ==
    UNION {
        {[i \in 1..n |-> MkTable(IF i = bad THEN dt ELSE BaseDtypes, tss[i], i)]
            : tss \in [1..n -> SUBSET (1..MaxTs)],
              bad \in 0..n,
              dt \in OtherDtypes}
        : n \in 0..MaxBatches}

UpdInit ==
    /\ original \in {MkTable(BaseDtypes, s, 0) : s \in SUBSET (1..MaxTs)}
    /\ databases \in BatchLists
    /\ updated = Pending
    /\ updatedAgain = Pending
    /\ oneByOne = Pending
    /\ argsortMemo = <<>>
    /\ ReadIdle
    /\ SegIdle
    /\ CliIdle
    /\ FltIdle
    /\ FluxIdle
    /\ ConvIdle
    /\ FindIdle
    /\ ConcIdle
    /\ FxIdle
    /\ CmdIdle

\* result = update(original, *databases)
CallUpdate ==
    /\ updated = Pending
    /\ \E p \in ArgsortChoices(argsortMemo, UpdateKeys(original, databases)) :
        /\ updated' = Update(original, databases, p)
        /\ argsortMemo' = Remember(argsortMemo, UpdateKeys(original, databases), p)
    /\ UNCHANGED <<original, databases, updatedAgain>>
    /\ UNCHANGED <<cliVars, readVars, segVars,
                 fltVars, fluxVars, convVars>>
    /\ UNCHANGED <<findVars, foldVars, concVars, fxVars, cmdVars>>

\* update(result, *databases): the same batches merged a second time
CallUpdateAgain ==
    /\ IsTable(updated)
    /\ updatedAgain = Pending
    /\ \E p \in ArgsortChoices(argsortMemo, UpdateKeys(updated, databases)) :
        /\ updatedAgain' = Update(updated, databases, p)
        /\ argsortMemo' = Remember(argsortMemo, UpdateKeys(updated, databases), p)
    /\ UNCHANGED <<original, databases, updated>>
    /\ UNCHANGED <<cliVars, readVars, segVars,
                 fltVars, fluxVars, convVars>>
    /\ UNCHANGED <<findVars, foldVars, concVars, fxVars, cmdVars>>

RECURSIVE OneByOne(_, _, _)
\* update(...update(update(orig, b1), b2)..., bn): the results it can give,
\* each with what the sort has answered by then; a call that raises ends it
OneByOne(orig, dbs, memo) ==
    IF dbs = <<>> \/ IsError(orig) THEN {[result |-> orig, memo |-> memo]}
    ELSE UNION {OneByOne(Update(orig, <<Head(dbs)>>, p), Tail(dbs),
                         Remember(memo, UpdateKeys(orig, <<Head(dbs)>>), p))
                    : p \in ArgsortChoices(memo, UpdateKeys(orig, <<Head(dbs)>>))}

\* the batches merged into original one call at a time, from left to right
CallUpdateOneByOne ==
    /\ oneByOne = Pending
    /\ \E o \in OneByOne(original, databases, argsortMemo) :
        /\ oneByOne' = o.result
        /\ argsortMemo' = o.memo
    /\ UNCHANGED <<original, databases, updated, updatedAgain>>
    /\ UNCHANGED <<cliVars, readVars, segVars,
                 fltVars, fluxVars, convVars>>
    /\ UNCHANGED <<findVars, concVars, fxVars, cmdVars>>

UpdNext == CallUpdate \/ CallUpdateAgain \/ CallUpdateOneByOne

SpecUpdate == UpdInit /\ [][UpdNext]_vars

----------------------------------------------------------------------------
(* measurements.py: iter_measurements *)

CHAMBER_COLUMN == "A"

\* chamber_changed that sees a change at the first row only
ChamberChangedAtFirstRowOnly(tbl, i) == i = 1

\* chamber_changed: db[chamber_column] != db[chamber_column].shift(1); the
\* first row is compared with the missing value and so counts as changed
ChamberChanged(tbl, i) ==
    i = 1 \/ tbl.rows[i].v[CHAMBER_COLUMN] # tbl.rows[i - 1].v[CHAMBER_COLUMN]

\* gap_exceeded with >= in the place of >
GapReached(tbl, gap, i) == i > 1 /\ tbl.rows[i].ts - tbl.rows[i - 1].ts >= gap

\* gap_exceeded: db.index.to_series().diff() > max_gap; the first row has no
\* difference (NaT), which compares FALSE
GapExceeded(tbl, gap, i) == i > 1 /\ tbl.rows[i].ts - tbl.rows[i - 1].ts > gap

\* measurement_number = (chamber_changed | gap_exceeded).cumsum()
MeasurementNumber(tbl, gap) ==
    [i \in DOMAIN tbl.rows |->
        Cardinality({j \in 1..i : ChamberChanged(tbl, j) \/ GapExceeded(tbl, gap, j)})]

\* a groupby that hands out the groups in descending key order
GroupByDescending(tbl, number) ==
    LET keys == SortedSeq(Range(number))
    IN  [k \in DOMAIN keys |->
            SelectRows(tbl.rows,
                       [i \in DOMAIN tbl.rows |-> number[i] = keys[Len(keys) + 1 - k]])]

\* db.groupby(measurement_number): the groups in ascending key order, the rows
\* of a group in their order in db
GroupBy(tbl, number) ==
    LET keys == SortedSeq(Range(number))
    IN  [k \in DOMAIN keys |->
            SelectRows(tbl.rows, [i \in DOMAIN tbl.rows |-> number[i] = keys[k]])]

\* duration = measurement.index[-1] - measurement.index[0]
Duration(rows) == rows[Len(rows)].ts - rows[1].ts

\* accept with the lower limit exclusive
AcceptAboveMin(lo, duration, hi) == lo < duration /\ duration <= hi

\* accept = min_duration <= duration <= max_duration
Accept(lo, duration, hi) == lo <= duration /\ duration <= hi

\* _ensure_float64_floats: every float column becomes float64
EnsureFloat64Floats(dts) ==
    [c \in DOMAIN dts |-> IF Kind(dts[c]) = "f" THEN "float64" ELSE dts[c]]

\* the groups of the whole table
Groups == GroupBy(seg_db, MeasurementNumber(seg_db, max_gap))

\* the generator is started: lines 94-98 run
SegStart ==
    /\ seg_pc = "created"
    /\ seg_pc' = "running"
    /\ measurement_metas' = <<>>
    /\ UNCHANGED <<seg_db, max_gap, min_duration, max_duration, grouped, yielded>>
    /\ UNCHANGED <<cliVars, updVars, readVars, argsortMemo,
                 fltVars, fluxVars, convVars>>
    /\ UNCHANGED <<findVars, foldVars, concVars, fxVars, cmdVars>>

\* one pass of the for loop: the next group is measured and its meta kept;
\* an accepted group is yielded, a rejected one is not
SegNextGroup ==
    /\ seg_pc = "running"
    /\ Len(grouped) < Len(Groups)
    /\ LET measurement == Groups[Len(grouped) + 1]
           duration == Duration(measurement)
           accept == Accept(min_duration, duration, max_duration)
       IN  /\ grouped' = Append(grouped, measurement)
           /\ measurement_metas' =
                Append(measurement_metas, [duration |-> duration, accept |-> accept])
           /\ \/ /\ accept
                 /\ yielded' = Append(yielded,
                        [dtypes |-> EnsureFloat64Floats(seg_db.dtypes),
                         rows   |-> measurement])
              \/ /\ ~accept
                 /\ yielded' = yielded
    /\ UNCHANGED <<seg_db, max_gap, min_duration, max_duration, seg_pc>>
    /\ UNCHANGED <<cliVars, updVars, readVars, argsortMemo,
                 fltVars, fluxVars, convVars>>
    /\ UNCHANGED <<findVars, foldVars, concVars, fxVars, cmdVars>>

\* the loop is over: the summary is logged and the generator is exhausted
SegFinish ==
    /\ seg_pc = "running"
    /\ Len(grouped) = Len(Groups)
    /\ seg_pc' = "exhausted"
    /\ UNCHANGED <<seg_db, max_gap, min_duration, max_duration,
                   grouped, measurement_metas, yielded>>
    /\ UNCHANGED <<cliVars, updVars, readVars, argsortMemo,
                 fltVars, fluxVars, convVars>>
    /\ UNCHANGED <<findVars, foldVars, concVars, fxVars, cmdVars>>

\* a filtered store: unique ascending instants, a chamber value in column A
\* and a float32 concentration in column C
SegDtypes == [A |-> "str", C |-> "float32"]

SegTable(tsSet, chamber) ==
    LET ts == SortedSeq(tsSet)
    IN  [dtypes |-> SegDtypes,
         rows   |-> [i \in DOMAIN ts |->
                        [ts |-> ts[i], v |-> [A |-> chamber[ts[i]], C |-> Num(1, 0)]]]]

SegTables ==
    {SegTable(s, ch) : s \in {x \in SUBSET (0..MaxSegTs) : Cardinality(x) <= MaxSegRows},
                       ch \in [0..MaxSegTs -> {"A", "B"}]}

\* the table of the segmentation example, instants in half seconds:
\* (t=0,A), (t=1,A), (t=1.5,B), (t=2.0,B), (t=4.0,B)
ExampleTable ==
    SegTable({0, 2, 3, 4, 8},
             [t \in 0..8 |-> IF t <= 2 THEN "A" ELSE "B"])

SegInit ==
    /\ \/ /\ seg_db \in SegTables
          /\ max_gap \in 1..MaxGap
          /\ min_duration \in 0..MaxDuration
          /\ max_duration \in 0..MaxDuration
       \/ /\ seg_db = ExampleTable
          /\ max_gap = 2 /\ min_duration \in {0, 1} /\ max_duration = 20
    /\ seg_pc = "created"
    /\ grouped = <<>> /\ measurement_metas = <<>> /\ yielded = <<>>
    /\ argsortMemo = <<>>
    /\ UpdIdle
    /\ ReadIdle
    /\ CliIdle
    /\ FltIdle
    /\ FluxIdle
    /\ ConvIdle
    /\ FindIdle
    /\ FoldIdle
    /\ ConcIdle
    /\ FxIdle
    /\ CmdIdle

SegNext == SegStart \/ SegNextGroup \/ SegFinish

SpecSeg == SegInit /\ [][SegNext]_vars

----------------------------------------------------------------------------
(* database.py: the database file; cli.py: the import command *)

TIMESTAMP_COLUMN == "__TIMESTAMP__"

\* no file at the path of the database
NoFile == [exists |-> FALSE]

\* save_db writing the timestamps at microsecond resolution
SaveDbMicroseconds(t) ==
    [dtypes |-> (TIMESTAMP_COLUMN :> "datetime64[us]") @@ t.dtypes,
     rows   |-> [i \in DOMAIN t.rows |->
                    (TIMESTAMP_COLUMN :> (t.rows[i].ts \div NANOSECONDS_PER_MICROSECOND))
                        @@ t.rows[i].v]]

\* save_db: db.reset_index().to_feather(path).  The index becomes the
\* ordinary column __TIMESTAMP__ of the stored frame.
SaveDb(t) ==
    [dtypes |-> (TIMESTAMP_COLUMN :> "datetime64[ns]") @@ t.dtypes,
     rows   |-> [i \in DOMAIN t.rows |->
                    (TIMESTAMP_COLUMN :> t.rows[i].ts) @@ t.rows[i].v]]

\* read_db: pd.read_feather(path).set_index(TIMESTAMP_COLUMN)
ReadDb(file) ==
    LET cols == DOMAIN file.dtypes \ {TIMESTAMP_COLUMN}
    IN  [dtypes |-> [c \in cols |-> file.dtypes[c]],
         rows   |-> [i \in DOMAIN file.rows |->
                        [ts |-> file.rows[i][TIMESTAMP_COLUMN],
                         v  |-> [c \in cols |-> file.rows[i][c]]]]]

\* read_src_file on one file of the import.  The order argsort gives to equal
\* keys does not show in the result: equal keys make the call raise.
ReadOne(file, cf) ==
    ReadSrcFile(file, cf.columns, cf.timestamp_col,
                CHOOSE p \in ArgsortOutcomes(ReadKeys(file, cf.columns, cf.timestamp_col)) : TRUE)

\* datasets = [read_src_file(path, ...) for path in paths]
Datasets(files, cf) == [i \in DOMAIN files |-> ReadOne(files[i], cf)]

\* the first exception of _read_src_files before its update, or Ok
ReadSrcFilesError(files, cf) ==
    LET ds == Datasets(files, cf)
        bad == {i \in DOMAIN ds : IsError(ds[i])}
        empty == CreateEmptyDb(cf.columns, cf.timestamp_col)
    IN  IF bad # {} THEN ds[Min(bad)]
        ELSE IF IsError(empty) THEN empty
        ELSE SchemaCheck(empty, ds)

\* the index that update(create_empty_db(...), *datasets) hands to the sort
ReadSrcFilesKeys(files, cf) ==
    UpdateKeys(CreateEmptyDb(cf.columns, cf.timestamp_col), Datasets(files, cf))

\* _read_src_files when nothing raises and argsort answers with the order p
ReadSrcFiles(files, cf, p) ==
    Update(CreateEmptyDb(cf.columns, cf.timestamp_col), Datasets(files, cf), p)

\* import_, lines 101-111: the database file is read, or an empty store made
ImportReadDb ==
    /\ pc = "idle"
    /\ LET got == IF db_file = NoFile
                  THEN CreateEmptyDb(conf.columns, conf.timestamp_col)
                  ELSE ReadDb(db_file)
       IN  IF IsError(got)
           THEN /\ exit_code' = "error"
                /\ UNCHANGED <<pc, db>>
           ELSE /\ pc' = "read"
                /\ db' = got
                /\ exit_code' = "none"
    /\ UNCHANGED <<src_files, conf, db_file, new_data, same_inputs, argsortMemo>>
    /\ UNCHANGED <<updVars, readVars, segVars,
                 fltVars, fluxVars, convVars>>
    /\ UNCHANGED <<findVars, foldVars, concVars, fxVars, cmdVars>>

\* an import that writes the store it has read before it reads the sources
ImportReadFailsAfterSaving ==
    /\ pc = "read"
    /\ ReadSrcFilesError(src_files, conf) # Ok
    /\ db_file' = SaveDb(db)
    /\ pc' = "idle"
    /\ db' = Idle
    /\ exit_code' = "error"
    /\ UNCHANGED <<src_files, conf, new_data, same_inputs, argsortMemo>>
    /\ UNCHANGED <<updVars, readVars, segVars,
                 fltVars, fluxVars, convVars>>
    /\ UNCHANGED <<findVars, foldVars, concVars, fxVars, cmdVars>>

\* import_, lines 113-118: a source file or their merge raises
ImportReadFails ==
    /\ pc = "read"
    /\ ReadSrcFilesError(src_files, conf) # Ok
    /\ pc' = "idle"
    /\ db' = Idle
    /\ exit_code' = "error"
    /\ UNCHANGED <<src_files, conf, db_file, new_data, same_inputs, argsortMemo>>
    /\ UNCHANGED <<updVars, readVars, segVars,
                 fltVars, fluxVars, convVars>>
    /\ UNCHANGED <<findVars, foldVars, concVars, fxVars, cmdVars>>

\* import_, lines 113-127: the source files are read and merged into
\* new_data, and new_data is merged into db
ImportMerge ==
    /\ pc = "read"
    /\ ReadSrcFilesError(src_files, conf) = Ok
    /\ LET keys1 == ReadSrcFilesKeys(src_files, conf)
       IN  \E p1 \in ArgsortChoices(argsortMemo, keys1) :
            LET new == ReadSrcFiles(src_files, conf, p1)
                memo1 == Remember(argsortMemo, keys1, p1)
                keys2 == UpdateKeys(db, <<new>>)
            IN  IF SchemaCheck(db, <<new>>) # Ok
                THEN /\ pc' = "idle"
                     /\ db' = Idle
                     /\ new_data' = Idle
                     /\ exit_code' = "error"
                     /\ argsortMemo' = memo1
                ELSE \E p2 \in ArgsortChoices(memo1, keys2) :
                        /\ pc' = "merged"
                        /\ new_data' = new
                        /\ db' = Update(db, <<new>>, p2)
                        /\ exit_code' = "none"
                        /\ argsortMemo' = Remember(memo1, keys2, p2)
    /\ UNCHANGED <<src_files, conf, db_file, same_inputs>>
    /\ UNCHANGED <<updVars, readVars, segVars,
                 fltVars, fluxVars, convVars>>
    /\ UNCHANGED <<findVars, foldVars, concVars, fxVars, cmdVars>>

\* import_, line 130: save_db(db, db_path); the command ends
ImportSave ==
    /\ pc = "merged"
    /\ db_file' = SaveDb(db)
    /\ pc' = "idle"
    /\ db' = Idle
    /\ new_data' = Idle
    /\ exit_code' = "ok"
    /\ same_inputs' = TRUE
    /\ UNCHANGED <<src_files, conf, argsortMemo>>
    /\ UNCHANGED <<updVars, readVars, segVars,
                 fltVars, fluxVars, convVars>>
    /\ UNCHANGED <<findVars, foldVars, concVars, fxVars, cmdVars>>

\* a row of a source file of the import: timestamp cell, value of column B
SrcRow(t, b) == [T |-> t, B |-> b, X |-> Num(0, 0)]

SrcFile(rows) == [columns |-> {"T", "B", "X"}, rows |-> rows]

\* The source files an import can find.  As float64 seconds the cells Num(0, 0)
\* and Num(0, 1) are both the instant 0 and Num(0, 3) is the instant 1000.
SrcCatalog ==
    {SrcFile(<<SrcRow(Num(0, 3), Num(1, 0))>>),
     SrcFile(<<SrcRow(Num(0, 3), Num(2, 0))>>),
     SrcFile(<<SrcRow(Num(0, 3), Num(2, 0)), SrcRow(Num(0, 0), Num(2, 0))>>),
     SrcFile(<<SrcRow(Num(0, 0), Num(1, 0)), SrcRow(Num(0, 1), Num(1, 0))>>)}

SrcFileLists == UNION {[1..n -> SrcCatalog] : n \in 0..MaxSrcFiles}

ImportConfigs ==
    {[columns |-> [T |-> "float64", B |-> "uint8"], timestamp_col |-> "T"]}

\* between two invocations the source files are replaced by others
WriteSourceFiles ==
    /\ pc = "idle"
    /\ \E fs \in SrcFileLists :
        /\ fs # src_files
        /\ src_files' = fs
    /\ same_inputs' = FALSE
    /\ UNCHANGED <<conf, db_file, pc, db, new_data, exit_code, argsortMemo>>
    /\ UNCHANGED <<updVars, readVars, segVars,
                 fltVars, fluxVars, convVars>>
    /\ UNCHANGED <<findVars, foldVars, concVars, fxVars, cmdVars>>

Init ==
    /\ src_files = <<>>
    /\ conf \in ImportConfigs
    /\ db_file = NoFile
    /\ pc = "idle"
    /\ db = Idle
    /\ new_data = Idle
    /\ exit_code = "none"
    /\ same_inputs = FALSE
    /\ argsortMemo = <<>>
    /\ UpdIdle
    /\ ReadIdle
    /\ SegIdle
    /\ FltIdle
    /\ FluxIdle
    /\ ConvIdle
    /\ FindIdle
    /\ FoldIdle
    /\ ConcIdle
    /\ FxIdle
    /\ CmdIdle

Next ==
    \/ WriteSourceFiles
    \/ ImportReadDb
    \/ ImportReadFails
    \/ ImportMerge
    \/ ImportSave

Spec == Init /\ [][Next]_vars

----------------------------------------------------------------------------
(* Claims about update() *)

\* the sources of a merge, the original store first
Sources(orig, dbs) == <<orig>> \o dbs

\* the timestamps of a table
TsOf(t) == Range(Index(t.rows))

\* the row of table t at timestamp ts
RowAt(t, ts) == t.rows[CHOOSE i \in DOMAIN t.rows : t.rows[i].ts = ts]

\* the last source in which timestamp ts occurs
LatestSource(srcs, ts) ==
    srcs[CHOOSE i \in DOMAIN srcs :
            /\ ts \in TsOf(srcs[i])
            /\ \A j \in DOMAIN srcs : ts \in TsOf(srcs[j]) => j <= i]

\* last-write-wins stated on the arguments: one row per timestamp of any
\* source, taken from the latest source that has it, ascending
LastWriteWins(orig, dbs) ==
    LET srcs == Sources(orig, dbs)
        ts == SortedSeq(UNION {TsOf(srcs[i]) : i \in DOMAIN srcs})
    IN  [i \in DOMAIN ts |-> RowAt(LatestSource(srcs, ts[i]), ts[i])]

SchemaCompatible(orig, dbs) == \A i \in DOMAIN dbs : dbs[i].dtypes = orig.dtypes

\* C2: for schema-compatible inputs update returns exactly one row per
\* timestamp of the original or of any batch, and at a timestamp that several
\* sources share the row of the latest-supplied source.
C2_LastWriteWins ==
    (updated # Pending /\ SchemaCompatible(original, databases))
        => (IsTable(updated) /\ updated.rows = LastWriteWins(original, databases))

\* C3: merging the same batch B a second time changes nothing:
\* update(update(S, B), B) = update(S, B).
C3_MergeIdempotent ==
    (Len(databases) = 1 /\ updatedAgain # Pending) => updatedAgain = updated

\* C4: when any batch differs from the original in its column set or in a
\* column type, the call raises ValueError, whatever the other batches are;
\* nothing is returned and the original store is as it was.
C4_SchemaDriftRejected ==
    [][(updated = Pending /\ updated' # Pending
            /\ ~SchemaCompatible(original, databases))
        => (/\ IsError(updated') /\ updated'.error = "ValueError"
            /\ original' = original
            /\ updatedAgain' = Pending)]_vars

\* a call with two batches, the first compatible and not empty, the second
\* with another schema, has raised
C4_Witness ==
    /\ Len(databases) = 2
    /\ databases[1].dtypes = original.dtypes /\ databases[1].rows # <<>>
    /\ databases[2].dtypes # original.dtypes
    /\ original.rows # <<>>
    /\ IsError(updated)

----------------------------------------------------------------------------
(* Claims about read_src_file() *)

\* the file parses: read_csv and the timestamp conversion raise nothing
Parses(file, dts, tcol) ==
    /\ ~IsError(ReadCsv(file, dts))
    /\ ~IsError(ConvertDatetime(dts[tcol], <<>>))

\* the converted timestamps of the rows of a file that parses, in file order
Instants(file, dts, tcol) == DbKeys(ReadCsv(file, dts), tcol)

\* strictly ascending index
StrictlyAscending(keys) == \A i \in 1..(Len(keys) - 1) : keys[i] < keys[i + 1]

\* C7: when two rows of a file that parses have the same converted timestamp
\* (also when their raw values differ), read_src_file raises the
\* duplicate-timestamp ValueError naming a timestamp that occurs twice; a
\* table it returns has no repeated timestamp.
C7_DuplicateTimestampFails ==
    (data # Pending /\ Parses(src_file, dtypes, timestamp_col))
        => LET ks == Instants(src_file, dtypes, timestamp_col)
           IN  /\ ~IsUnique(ks)
                    => /\ IsError(data)
                       /\ data = DuplicateTimestamp(data.ts)
                       /\ Cardinality({i \in DOMAIN ks : ks[i] = data.ts}) >= 2
               /\ IsTable(data) => IsUnique(Index(data.rows))

\* two rows with different raw timestamps and the same instant were refused
C7_Witness ==
    /\ IsError(data) /\ data.msg = "Duplicate timestamp"
    /\ Len(src_file.rows) = 2
    /\ src_file.rows[1].T # src_file.rows[2].T
    /\ dtypes.T = "float64"

\* C8: for a file that parses and has no duplicate timestamp, read_src_file
\* returns every row of the file exactly once (rows with missing values too),
\* ascending by converted timestamp, with the declared columns but the
\* timestamp column.
C8_AllRowsSorted ==
    (/\ data # Pending
     /\ Parses(src_file, dtypes, timestamp_col)
     /\ IsUnique(Instants(src_file, dtypes, timestamp_col)))
        => LET ks == Instants(src_file, dtypes, timestamp_col)
               cols == DOMAIN dtypes \ {timestamp_col}
               parsed(i) == [ts |-> ks[i],
                             v  |-> [c \in cols |->
                                        ParseCell(dtypes[c], src_file.rows[i][c])]]
           IN  /\ IsTable(data)
               /\ DOMAIN data.dtypes = cols
               /\ \A c \in cols : data.dtypes[c] = dtypes[c]
               /\ Len(data.rows) = Len(src_file.rows)
               /\ StrictlyAscending(Index(data.rows))
               /\ \A i \in DOMAIN src_file.rows :
                    Cardinality({j \in DOMAIN data.rows : data.rows[j] = parsed(i)}) = 1

\* a file whose rows come in descending time order, one of them with an empty
\* cell, was read
C8_Witness ==
    /\ IsTable(data)
    /\ Len(data.rows) = 2
    /\ "B" \in DOMAIN dtypes
    /\ FloatToInstant(src_file.rows[1].T) > FloatToInstant(src_file.rows[2].T)
    /\ dtypes.T = "float64"
    /\ src_file.rows[1].B = NA
    /\ data.rows[2].v.B = NA

----------------------------------------------------------------------------
(* Claims about iter_measurements() *)

RECURSIVE TotalLen(_)
TotalLen(ss) == IF ss = <<>> THEN 0 ELSE Len(Head(ss)) + TotalLen(Tail(ss))

\* the row of seg_db at which the k-th group gone through starts
StartRow(k) == 1 + TotalLen(SubSeq(grouped, 1, k - 1))

\* the rows at which the claim says a segment starts
SegmentStarts ==
    {i \in DOMAIN seg_db.rows :
        \/ i = 1
        \/ seg_db.rows[i].v.A # seg_db.rows[i - 1].v.A
        \/ seg_db.rows[i].ts - seg_db.rows[i - 1].ts > max_gap}

\* C9: a segment starts at exactly the first row, the rows whose chamber value
\* differs from the row before, and the rows more than max_gap after the row
\* before (a gap equal to max_gap does not split); for the example table with
\* max_gap 1.0, min_duration 0, max_duration 10 the episodes are {0, 1; A},
\* {1.5, 2.0; B} and {4.0; B}.
C9_SegmentBoundaries ==
    seg_pc = "exhausted"
        => /\ Concat(grouped) = seg_db.rows
           /\ \A k \in DOMAIN grouped : grouped[k] # <<>>
           /\ {StartRow(k) : k \in DOMAIN grouped} = SegmentStarts
           /\ (seg_db = ExampleTable /\ max_gap = 2 /\ min_duration = 0
                    /\ max_duration = 20)
                => [k \in DOMAIN yielded |->
                        [i \in DOMAIN yielded[k].rows |->
                            <<yielded[k].rows[i].ts, yielded[k].rows[i].v.A>>]]
                    = << <<<<0, "A">>, <<2, "A">>>>,
                         <<<<3, "B">>, <<4, "B">>>>,
                         <<<<8, "B">>>> >>

\* the example has been segmented
C9_Witness ==
    /\ seg_pc = "exhausted"
    /\ seg_db = ExampleTable
    /\ Len(yielded) = 3

\* the duration of a segment lies within the limits, both inclusive
WithinLimits(g) ==
    /\ min_duration <= g[Len(g)].ts - g[1].ts
    /\ g[Len(g)].ts - g[1].ts <= max_duration

\* C10: a segment is yielded if and only if min_duration <= duration <=
\* max_duration, both limits inclusive; a single-row segment is yielded only
\* when min_duration is zero.
C10_DurationLimits ==
    /\ [k \in DOMAIN yielded |-> yielded[k].rows] = SelectSeq(grouped, WithinLimits)
    /\ \A k \in DOMAIN grouped :
        Len(grouped[k]) = 1 => (measurement_metas[k].accept <=> min_duration = 0)

\* a segment exactly as long as min_duration and one exactly as long as
\* max_duration (the same one when the limits are equal) were yielded, and a
\* single row was rejected
C10_Witness ==
    /\ seg_pc = "exhausted"
    /\ 0 < min_duration
    /\ \E i, j, k \in DOMAIN measurement_metas :
        /\ measurement_metas[i].accept
        /\ measurement_metas[i].duration = min_duration
        /\ measurement_metas[j].accept
        /\ measurement_metas[j].duration = max_duration
        /\ ~measurement_metas[k].accept
        /\ measurement_metas[k].duration = 0

----------------------------------------------------------------------------
(* Claims about the store and the import command *)

\* the table in the database file (the empty store when there is no file)
Stored(file) ==
    IF file = NoFile THEN CreateEmptyDb(conf.columns, conf.timestamp_col)
    ELSE ReadDb(file)

\* C1: whatever create_empty_db, read_src_file, update, save_db and read_db
\* have done so far, the timestamp index of the store (in memory and in the
\* database file) is strictly ascending, with no timestamp twice.
C1_IndexStrictlyAscending ==
    /\ db_file # NoFile => StrictlyAscending(Index(ReadDb(db_file).rows))
    /\ IsTable(db) => StrictlyAscending(Index(db.rows))
    /\ IsTable(new_data) => StrictlyAscending(Index(new_data.rows))

\* a store of two rows is on disk after a merge in which sources shared a
\* timestamp and the concatenation was not in time order
C1_Witness ==
    /\ db_file # NoFile
    /\ Len(db_file.rows) = 2
    /\ argsortMemo # <<>>
    /\ pc = "idle"

\* C5: an import run again with the same source files and configuration
\* persists the store that the run before it persisted.
C5_ImportConvergent ==
    [][(pc = "merged" /\ pc' = "idle" /\ same_inputs) => db_file' = db_file]_vars

\* C6: the import leaves the rows of the database file whose timestamps also
\* occur in the imported data as they were, and adds the imported rows whose
\* timestamps the database did not have.
C6_ExistingRowsUnchanged ==
    [][(pc = "merged" /\ pc' = "idle")
        => LET before == Stored(db_file)
               after == Stored(db_file')
           IN  /\ \A ts \in TsOf(before) \cap TsOf(new_data) :
                    RowAt(after, ts) = RowAt(before, ts)
               /\ \A ts \in TsOf(new_data) \ TsOf(before) :
                    RowAt(after, ts) = RowAt(new_data, ts)]_vars

----------------------------------------------------------------------------
(* measurements.py: the row filter *)

\* the table sizes and cell values filter_db is called with
MaxFltRows == 2
MaxFltVal == 2

\* A Filter is a function from the names of the criteria that are not None
\* to their values.
FilterFields == {"min_value", "max_value", "allow_only", "disallow"}

KeyError(msg) == [error |-> "KeyError", msg |-> msg]

\* db.reset_index()[colname]: the index is the column TIMESTAMP_COLUMN
ColumnValues(tbl, colname) ==
    [i \in DOMAIN tbl.rows |->
        IF colname = "__TIMESTAMP__" THEN tbl.rows[i].ts ELSE tbl.rows[i].v[colname]]

\* values.isin(list)
IsIn(values, list) == [i \in DOMAIN values |-> values[i] \in Range(list)]

\* the exclusion_criteria appended for one column, as a set of boolean series
ExclusionCriteria(values, filter_) ==
    (IF "disallow" \in DOMAIN filter_
        THEN {IsIn(values, filter_.disallow)} ELSE {})
    \cup (IF "allow_only" \in DOMAIN filter_
        THEN {[i \in DOMAIN values |-> ~IsIn(values, filter_.allow_only)[i]]} ELSE {})
    \cup (IF "min_value" \in DOMAIN filter_
        THEN {[i \in DOMAIN values |-> values[i] < filter_.min_value]} ELSE {})
    \cup (IF "max_value" \in DOMAIN filter_
        THEN {[i \in DOMAIN values |-> values[i] > filter_.max_value]} ELSE {})

\* _is_excluded_by_filter: functools.reduce(operator.or_, criteria, False);
\* with no criterion the result is the scalar False, not a series
IsExcludedByFilter(values, filter_) ==
    LET criteria == ExclusionCriteria(values, filter_)
    IN  IF criteria = {} THEN [scalar |-> FALSE]
        ELSE [mask |-> [i \in DOMAIN values |-> \E c \in criteria : c[i]]]

\* _get_filter_exclusions: pd.DataFrame({colname: excluded, ...}).  A frame is
\* [nrows, cols]; scalars are broadcast over the index of the series among the
\* values, a dict of scalars only has no index, and an empty dict gives the
\* frame without rows.
GetFilterExclusions(tbl, flts) ==
    LET known == DOMAIN tbl.dtypes \cup {"__TIMESTAMP__"}
        excl == [c \in DOMAIN flts |-> IsExcludedByFilter(ColumnValues(tbl, c), flts[c])]
        n == Len(tbl.rows)
    IN  IF ~(DOMAIN flts \subseteq known) THEN KeyError("column")
        ELSE IF DOMAIN flts = {} THEN [nrows |-> 0, cols |-> <<>>]
        ELSE IF \A c \in DOMAIN flts : "scalar" \in DOMAIN excl[c]
        THEN ValueError("If using all scalar values, you must pass an index")
        ELSE [nrows |-> n,
              cols  |-> [c \in DOMAIN flts |->
                            IF "scalar" \in DOMAIN excl[c]
                            THEN [i \in 1..n |-> excl[c].scalar]
                            ELSE excl[c].mask]]

\* exclusions.any(axis=1).values
AnyAxis1(exclusions) ==
    [i \in 1..exclusions.nrows |-> \E c \in DOMAIN exclusions.cols : exclusions.cols[c][i]]

\* _apply_filter_exclusions: db[~exclusions.any(axis=1).values].  A boolean
\* key must be as long as the index.  The key of a frame without columns is
\* empty; when pandas gives it the dtype bool it is a (too short) boolean
\* key, otherwise it is an empty list of column labels, which selects no
\* column and every row.
ApplyFilterExclusions(tbl, exclusions) ==
    LET any == AnyAxis1(exclusions)
        keep == [i \in DOMAIN any |-> ~any[i]]
        asBoolKey == IF Len(keep) # Len(tbl.rows)
                     THEN ValueError("Item wrong length")
                     ELSE [dtypes |-> tbl.dtypes, rows |-> SelectRows(tbl.rows, keep)]
        asLabels == [dtypes |-> <<>>,
                     rows   |-> [i \in DOMAIN tbl.rows |->
                                    [ts |-> tbl.rows[i].ts, v |-> <<>>]]]
    IN  IF DOMAIN exclusions.cols = {} THEN {asBoolKey, asLabels} ELSE {asBoolKey}

\* filter_db(db, filters): the results it can give
FilterDb(tbl, flts) ==
    LET exclusions == GetFilterExclusions(tbl, flts)
    IN  IF IsError(exclusions) THEN {exclusions}
        ELSE ApplyFilterExclusions(tbl, exclusions)

----------------------------------------------------------------------------
(* filter_db() as a function: inputs drawn at Init *)

FltDtypes == [C |-> "uint8"]

\* the tables with at most MaxFltRows rows at the instants 0, 1, ...
FltTables ==
    UNION {{[dtypes |-> FltDtypes,
             rows   |-> [i \in 1..n |-> [ts |-> i - 1, v |-> [C |-> val[i]]]]]
                : val \in [1..n -> 0..MaxFltVal]} : n \in 0..MaxFltRows}

\* the Filters: any subset of the criteria, each with the value 1 or <<1>>
Filters ==
    {[f \in fs |-> IF f \in {"min_value", "max_value"} THEN 1 ELSE <<1>>]
        : fs \in SUBSET FilterFields}

\* conf.filters: a Filter for any of the columns __TIMESTAMP__ and C
FilterConfigs ==
    UNION {[cs -> Filters] : cs \in SUBSET {"__TIMESTAMP__", "C"}}

FltInit ==
    /\ flt_db \in FltTables
    /\ filters \in FilterConfigs
    /\ filtered = Pending
    /\ argsortMemo = <<>>
    /\ UpdIdle
    /\ ReadIdle
    /\ SegIdle
    /\ CliIdle
    /\ FluxIdle
    /\ ConvIdle
    /\ FindIdle
    /\ FoldIdle
    /\ ConcIdle
    /\ FxIdle
    /\ CmdIdle

\* filtered = filter_db(flt_db, filters)
CallFilterDb ==
    /\ filtered = Pending
    /\ filtered' \in FilterDb(flt_db, filters)
    /\ UNCHANGED <<flt_db, filters, argsortMemo>>
    /\ UNCHANGED <<cliVars, updVars, readVars, segVars, fluxVars, convVars>>
    /\ UNCHANGED <<findVars, foldVars, concVars, fxVars, cmdVars>>

SpecFilter == FltInit /\ [][CallFilterDb]_vars

----------------------------------------------------------------------------
(* Claims about filter_db() *)

\* a criterion of the Filter of some column excludes row i
ExcludedBySomeCriterion(tbl, flts, i) ==
    \E c \in DOMAIN flts :
        LET x == ColumnValues(tbl, c)[i]
            f == flts[c]
        IN  \/ "disallow" \in DOMAIN f /\ x \in Range(f.disallow)
            \/ "allow_only" \in DOMAIN f /\ x \notin Range(f.allow_only)
            \/ "min_value" \in DOMAIN f /\ x < f.min_value
            \/ "max_value" \in DOMAIN f /\ x > f.max_value

\* the rows no criterion excludes, in the original order
Unexcluded(tbl, flts) ==
    SelectRows(tbl.rows,
               [i \in DOMAIN tbl.rows |-> ~ExcludedBySomeCriterion(tbl, flts, i)])

\* C11: filter_db returns exactly the rows that no configured criterion of
\* any column excludes (values equal to min_value or max_value are kept), in
\* the original order, with the original columns and timestamp index.
C11_FilterKeepsUnexcluded ==
    filtered # Pending
        => filtered = [dtypes |-> flt_db.dtypes, rows |-> Unexcluded(flt_db, filters)]

----------------------------------------------------------------------------
(* fluxes.py: the flux estimator *)

\* the instants (whole seconds) and delays estimate_vol_flux is called with
MaxFluxTs == 3
MaxDelay == 2
MaxMargin == 1

\* the samples the fit uses: measurement[index >= data_start + t0_delay + t0_margin]
DataAnalyze(meas, delay, margin) ==
    SelectSeq(meas, LAMBDA x : x.ts >= meas[1].ts + delay + margin)

\* elapsed_seconds = (data_analyze.index - t0).total_seconds()
ElapsedSeconds(analyze, t0) == [i \in DOMAIN analyze |-> analyze[i].ts - t0]

\* What numpy.linalg.lstsq(a, b) returns for a = [1, z]: the solution is the
\* all-zero vector for no rows, the unique least-squares solution when the
\* rows have rank 2 (two different z), the minimum-norm one when they have
\* rank 1, and NaN when a row holds NaN.
Lstsq(zs, b) ==
    IF zs = <<>> THEN [solution |-> "zeros", rows |-> <<>>]
    ELSE IF \E i \in DOMAIN zs : zs[i].kind = "nan" THEN [solution |-> "nan", rows |-> <<>>]
    ELSE IF \A i, j \in DOMAIN zs : zs[i] = zs[j]
    THEN [solution |-> "minimum_norm", rows |-> [i \in DOMAIN zs |-> <<zs[i], b[i]>>]]
    ELSE [solution |-> "least_squares", rows |-> [i \in DOMAIN zs |-> <<zs[i], b[i]>>]]

\* z = (tau / h) * (1 - np.exp(-elapsed / tau)), kept symbolic: z is one to
\* one in elapsed for tau # 0; for tau = 0 the quotient -elapsed / tau is
\* -inf (z = 0) for elapsed > 0 and NaN for elapsed = 0
Z(elapsed, tau, hh) ==
    [i \in DOMAIN elapsed |->
        IF tau # 0 THEN [kind |-> "finite", elapsed |-> elapsed[i]]
        ELSE IF elapsed[i] = 0 THEN [kind |-> "nan", elapsed |-> 0]
        ELSE [kind |-> "zero", elapsed |-> 0]]

\* _calculate_vol_flux_from_cleaned_data: tau / h of two Python floats
\* raises ZeroDivisionError for h = 0; lstsq either fails to converge on NaN
\* or returns NaN
CalculateVolFluxFromCleanedData(elapsed, concentrations, tau, hh) ==
    IF hh = 0 THEN {[error |-> "ZeroDivisionError", msg |-> "float division by zero"]}
    ELSE LET fit == Lstsq(Z(elapsed, tau, hh), concentrations)
         IN  IF fit.solution = "nan"
             THEN {fit, [error |-> "LinAlgError", msg |-> "SVD did not converge"]}
             ELSE {fit}

\* estimate_vol_flux(measurement, t0_delay, t0_margin, tau_s, h): the results
\* it can give.  data_analyze.index[0] raises IndexError for an empty
\* data_analyze, after the fit was computed.
EstimateVolFlux(meas, delay, margin, tau, hh) ==
    LET data_start == meas[1].ts
        t0 == data_start + delay
        data_analyze == DataAnalyze(meas, delay, margin)
        elapsed_seconds == ElapsedSeconds(data_analyze, t0)
        concentrations == [i \in DOMAIN data_analyze |-> data_analyze[i].c]
        fits == CalculateVolFluxFromCleanedData(elapsed_seconds, concentrations, tau, hh)
    IN  {IF IsError(fit) THEN fit
         ELSE IF data_analyze = <<>>
         THEN [error |-> "IndexError", msg |-> "index 0 is out of bounds"]
         ELSE [data_start |-> data_start, t0 |-> t0, tau_s |-> tau, h |-> hh,
               fit_start |-> data_analyze[1].ts,
               fit_end |-> data_analyze[Len(data_analyze)].ts,
               c0_vol_flux |-> fit] : fit \in fits}

----------------------------------------------------------------------------
(* estimate_vol_flux() as a function: inputs drawn at Init *)

\* the series of one gas over a measurement: samples at some of the instants
\* 0..MaxFluxTs, in time order, with the concentration 0 or 1
FluxMeasurements ==
    UNION {{[i \in 1..Cardinality(T) |->
                [ts |-> SortedSeq(T)[i], c |-> val[SortedSeq(T)[i]]]]
                    : val \in [T -> {0, 1}]}
                : T \in SUBSET (0..MaxFluxTs) \ {{}}}

FluxInit ==
    /\ flux_measurement \in FluxMeasurements
    /\ t0_delay \in 0..MaxDelay
    /\ t0_margin \in 0..MaxMargin
    /\ tau_s \in {-1, 0, 1}
    /\ h \in {-1, 0, 1}
    /\ estimate = Pending
    /\ argsortMemo = <<>>
    /\ UpdIdle
    /\ ReadIdle
    /\ SegIdle
    /\ CliIdle
    /\ FltIdle
    /\ ConvIdle
    /\ FindIdle
    /\ FoldIdle
    /\ ConcIdle
    /\ FxIdle
    /\ CmdIdle

\* estimate = estimate_vol_flux(flux_measurement, t0_delay, t0_margin, tau_s, h)
CallEstimateVolFlux ==
    /\ estimate = Pending
    /\ estimate' \in EstimateVolFlux(flux_measurement, t0_delay, t0_margin, tau_s, h)
    /\ UNCHANGED <<flux_measurement, t0_delay, t0_margin, tau_s, h, argsortMemo>>
    /\ UNCHANGED <<cliVars, updVars, readVars, segVars, fltVars, convVars>>
    /\ UNCHANGED <<findVars, foldVars, concVars, fxVars, cmdVars>>

SpecFlux == FluxInit /\ [][CallEstimateVolFlux]_vars

----------------------------------------------------------------------------
(* Claims about estimate_vol_flux() *)

\* C12: estimate_vol_flux fails, returning no estimate, whenever the samples
\* selected for the fit (timestamp >= start + t0_delay + t0_margin) are fewer
\* than two (here with valid tau_s and h, so that nothing else can fail).
C12_InsufficientDataFails ==
    (/\ estimate # Pending
     /\ tau_s > 0 /\ h > 0
     /\ Len(DataAnalyze(flux_measurement, t0_delay, t0_margin)) < 2)
        => IsError(estimate)

\* C13: estimate_vol_flux fails, returning no estimate, whenever tau_s <= 0
\* or h <= 0.
C13_InvalidParameterFails ==
    (estimate # Pending /\ (tau_s <= 0 \/ h <= 0)) => IsError(estimate)

----------------------------------------------------------------------------
(* convert_datetime() and the [import] validator as functions *)

MaxSeriesLen == 2
MaxTextMs == 1

BadConfig(msg) == [error |-> "BadConfig", msg |-> msg]

\* Import.timestamp_float_must_be_float64(columns, values)
TimestampFloatMustBeFloat64(columns, tcol) ==
    IF tcol \notin DOMAIN columns
    THEN BadConfig("No data type given for timestamp_col")
    ELSE IF Kind(columns[tcol]) = "f" /\ columns[tcol] # "float64"
    THEN BadConfig("Floating-point timestamp_col must be float64")
    ELSE Ok

DTypeNames ==
    {"uint8", "uint16", "uint32", "uint64", "int8", "int16", "int32", "int64",
     "float16", "float32", "float64", "bool", "str"}

\* the instants, in milliseconds, that the text timestamps denote
TextMillis == 0..MaxTextMs \cup {1123}

\* the text timestamps: each instant spelled with each offset, and one text
\* that is no timestamp
Texts ==
    {Text(ms + OffsetMillis(off), off)
        : ms \in TextMillis, off \in {"", "Z", "+0000", "+0100", "-0800"}}
    \cup {Text(0, "?")}

\* the values a column of the declared type can hold
CellsOf(dtype) ==
    CASE Kind(dtype) = "f" -> TimeCells
      [] Kind(dtype) \in {"i", "u"} -> 0..MaxSec
      [] Kind(dtype) = "b" -> BOOLEAN
      [] OTHER -> Texts

AllSeries ==
    UNION {{[dtype |-> d, values |-> vs]
                : vs \in UNION {[1..n -> CellsOf(d)] : n \in 0..MaxSeriesLen}}
                : d \in DTypeNames}

ConvInit ==
    /\ series \in AllSeries
    /\ converted = Pending
    /\ validated = Pending
    /\ argsortMemo = <<>>
    /\ UpdIdle
    /\ ReadIdle
    /\ SegIdle
    /\ CliIdle
    /\ FltIdle
    /\ FluxIdle
    /\ FindIdle
    /\ FoldIdle
    /\ ConcIdle
    /\ FxIdle
    /\ CmdIdle

\* converted = convert_datetime(series)
CallConvertDatetime ==
    /\ converted = Pending
    /\ converted' = ConvertDatetime(series.dtype, series.values)
    /\ UNCHANGED <<series, validated, argsortMemo>>
    /\ UNCHANGED <<cliVars, updVars, readVars, segVars, fltVars, fluxVars>>
    /\ UNCHANGED <<findVars, foldVars, concVars, fxVars, cmdVars>>

\* Import(timestamp_col="T", columns={"T": series.dtype}) is validated
ValidateImport ==
    /\ validated = Pending
    /\ validated' = TimestampFloatMustBeFloat64([T |-> series.dtype], "T")
    /\ UNCHANGED <<series, converted, argsortMemo>>
    /\ UNCHANGED <<cliVars, updVars, readVars, segVars, fltVars, fluxVars>>
    /\ UNCHANGED <<findVars, foldVars, concVars, fxVars, cmdVars>>

ConvNext == CallConvertDatetime \/ ValidateImport

SpecConvert == ConvInit /\ [][ConvNext]_vars

----------------------------------------------------------------------------
(* Claims about convert_datetime() *)

\* the source types the conversion accepts: float64, the integers and text
AcceptedDtypes ==
    {"float64", "str",
     "uint8", "uint16", "uint32", "uint64", "int8", "int16", "int32", "int64"}

\* C15: timestamp conversion accepts exactly float64, integer and text
\* columns: a float16 or float32 column is rejected both by the config
\* validator and by convert_datetime, any other type (bool) fails with an
\* unsupported-type error, and then no instants are produced.
C15_AcceptedSourceTypes ==
    /\ converted # Pending =>
        /\ series.dtype \in {"float16", "float32"} =>
              IsError(converted) /\ converted.error = "ValueError"
        /\ series.dtype = "bool" =>
              IsError(converted) /\ converted.error = "NotImplementedError"
        /\ series.dtype \notin AcceptedDtypes => IsError(converted)
        /\ (/\ series.dtype \in AcceptedDtypes
            /\ series.dtype = "str" =>
                    \A i \in DOMAIN series.values : IsIso8601(series.values[i]))
              => (~IsError(converted)
                    /\ Len(converted.instants) = Len(series.values))
    /\ validated # Pending =>
        /\ series.dtype \in {"float16", "float32"} =>
              IsError(validated) /\ validated.error = "BadConfig"
        /\ series.dtype = "float64" => validated = Ok

\* a float32 column was rejected by both, the validator and the conversion
C15_Witness ==
    /\ series.dtype = "float32"
    /\ series.values # <<>>
    /\ IsError(converted)
    /\ IsError(validated)

\* C16: a float64 value of Unix seconds converts to the instant that is the
\* value times 1,000,000 rounded to the nearest whole microsecond, so the
\* instant is within one microsecond (in fact half of one) of the input.
C16_FloatNearestMicrosecond ==
    (series.dtype = "float64" /\ converted # Pending) =>
        /\ ~IsError(converted)
        /\ \A i \in DOMAIN series.values :
            LET q == series.values[i].sec * MICROSECONDS_PER_SECOND * 4
                        + series.values[i].qus
                ns == converted.instants[i]
                us == ns \div NANOSECONDS_PER_MICROSECOND
            IN  /\ ns % NANOSECONDS_PER_MICROSECOND = 0
                /\ 4 * us - q <= 2
                /\ q - 4 * us <= 2

\* a value three quarters of a microsecond past a second was converted
C16_Witness ==
    /\ series.dtype = "float64"
    /\ converted # Pending
    /\ \E i \in DOMAIN series.values :
          series.values[i].qus = 3 /\ series.values[i].sec = 1

\* C17: an integer timestamp n converts to the instant exactly n seconds
\* after the epoch.
C17_IntegerSeconds ==
    (Kind(series.dtype) \in {"i", "u"} /\ converted # Pending) =>
        /\ ~IsError(converted)
        /\ \A i \in DOMAIN series.values :
            converted.instants[i]
                = series.values[i] * MICROSECONDS_PER_SECOND * NANOSECONDS_PER_MICROSECOND

\* the texts of the example: 1970-01-01 01:00:01.123+0100 and
\* 1969-12-31 16:00:04.123-0800
Example0100 == Text(3601123, "+0100")
ExampleMinus0800 == Text(4123 - 28800000, "-0800")

\* C18: two texts that denote the same instant with different UTC offsets
\* (or Z, or no offset, read as UTC) convert to the same naive-UTC instant,
\* the wall-clock time less the offset; the two texts of the example become
\* 1.123 s and 4.123 s after the epoch.
C18_TextOffsetsNormalized ==
    /\ (series.dtype = "str" /\ converted # Pending /\ ~IsError(converted)) =>
        /\ \A i, j \in DOMAIN series.values :
            (series.values[i].wall - OffsetMillis(series.values[i].off)
                = series.values[j].wall - OffsetMillis(series.values[j].off))
              => converted.instants[i] = converted.instants[j]
        /\ \A i \in DOMAIN series.values :
            /\ series.values[i].off \in {"", "Z"} =>
                  converted.instants[i] = series.values[i].wall * 1000000
            /\ series.values[i] = Example0100 =>
                  converted.instants[i] = 1123 * 1000000
    /\ ToUtcMillis(Example0100) = 1123
    /\ ToUtcMillis(ExampleMinus0800) = 4123

\* the example's +0100 text and the same instant spelled without an offset
\* were converted together
C18_Witness ==
    /\ series.dtype = "str"
    /\ converted # Pending
    /\ ~IsError(converted)
    /\ \E i, j \in DOMAIN series.values :
        /\ series.values[i] = Example0100
        /\ series.values[j] = Text(1123, "")

----------------------------------------------------------------------------
(* read_src_file() on integer columns: inputs drawn at Init *)

MaxWrapRows == 2

\* the integers written in column B of the file
WrapIntegers == {-3, 1, 255, 256, 257, 65537}

\* files with the columns T and B: row i at i - 1 microseconds, any of the
\* integers in B
WrapFiles ==
    UNION {{[columns |-> {"T", "B"},
             rows    |-> [i \in 1..n |-> [T |-> Num(0, 4 * (i - 1)), B |-> Num(b[i], 0)]]]
                : b \in [1..n -> WrapIntegers]} : n \in 0..MaxWrapRows}

WrapInit ==
    /\ src_file \in WrapFiles
    /\ dtypes \in {[T |-> "float64", B |-> d] : d \in {"uint8", "uint16", "float64"}}
    /\ timestamp_col = "T"
    /\ data = Pending
    /\ argsortMemo = <<>>
    /\ UpdIdle
    /\ SegIdle
    /\ CliIdle
    /\ FltIdle
    /\ FluxIdle
    /\ ConvIdle
    /\ FindIdle
    /\ FoldIdle
    /\ ConcIdle
    /\ FxIdle
    /\ CmdIdle

SpecWrap == WrapInit /\ [][CallReadSrcFile]_vars

----------------------------------------------------------------------------
(* Claims about integer columns *)

\* the value in 0..2^w - 1 that differs from n by a multiple of 2^w
ModuloWidth(n, m) == CHOOSE r \in 0..(m - 1) : (n - r) % m = 0

\* C19: an integer outside the range of its declared unsigned type is stored
\* modulo 2^w, without an error: in a uint8 column -3 becomes 253, 255 stays
\* 255, 256 becomes 0 and 257 becomes 1.
C19_IntegerOverflowWraps ==
    (data # Pending /\ dtypes.B \in {"uint8", "uint16"}) =>
        /\ IsTable(data)
        /\ Len(data.rows) = Len(src_file.rows)
        /\ \A i \in DOMAIN data.rows :
            LET n == src_file.rows[i].B.sec
                stored == data.rows[i].v.B
            IN  /\ stored = ModuloWidth(n, IF dtypes.B = "uint8" THEN 256 ELSE 65536)
                /\ dtypes.B = "uint8" =>
                    /\ n = -3 => stored = 253
                    /\ n = 255 => stored = 255
                    /\ n = 256 => stored = 0
                    /\ n = 257 => stored = 1

\* a file with -3 and 256 in a uint8 column was read
C19_Witness ==
    /\ IsTable(data)
    /\ dtypes.B = "uint8"
    /\ Len(src_file.rows) = 2
    /\ src_file.rows[1].B.sec = -3
    /\ src_file.rows[2].B.sec = 256
    /\ data.rows[1].v.B = 253

----------------------------------------------------------------------------
(* Claims about save_db() and read_db() *)

----------------------------------------------------------------------------
(* database.py: find_files *)

\* Directory and file names are the numbers 1..MaxNames, ordered as the
\* names compare.  A path is the sequence of its parts; a directory tree is
\* the set of the paths that exist in it.
MaxNames == 2
MaxFiles == 2
MaxPatterns == 2

\* the components of a glob pattern: a literal name, "*" and "**"
Lit(n) == [name |-> n]
Star == [wild |-> "*"]
DoubleStar == [wild |-> "**"]

RECURSIVE GlobMatch(_, _)
\* the pattern parts pat select the path (recursive=True: "**" stands for
\* zero or more directories)
GlobMatch(pat, path) ==
    IF pat = <<>> THEN path = <<>>
    ELSE IF Head(pat) = DoubleStar
    THEN \/ GlobMatch(Tail(pat), path)
         \/ path # <<>> /\ GlobMatch(pat, Tail(path))
    ELSE /\ path # <<>>
         /\ Head(pat) = Star \/ Head(pat) = Lit(Head(path))
         /\ GlobMatch(Tail(pat), Tail(path))

\* glob.iglob(pattern, recursive=True): the strings it yields, in the order
\* the directory scan happens to give.  A pattern written with a leading
\* "./" yields strings with the leading "./".
Iglob(tree, pattern) ==
    Orderings({[dot |-> pattern.dot, parts |-> e] :
                    e \in {x \in tree : GlobMatch(pattern.parts, x)}})

RECURSIVE Chain(_, _)
\* itertools.chain(*(glob.iglob(pattern) for pattern in glob_patterns))
Chain(tree, patterns) ==
    IF patterns = <<>> THEN {<<>>}
    ELSE {first \o rest : first \in Iglob(tree, Head(patterns)),
                          rest \in Chain(tree, Tail(patterns))}

\* Path(string): the parts; a leading "./" is dropped
Path(string) == string.parts

RECURSIVE PathLess(_, _)
\* Path.__lt__: the parts compared as sequences
PathLess(a, b) ==
    IF a = <<>> THEN b # <<>>
    ELSE IF b = <<>> THEN FALSE
    ELSE \/ Head(a) < Head(b)
         \/ Head(a) = Head(b) /\ PathLess(Tail(a), Tail(b))

RECURSIVE InsertPath(_, _)
InsertPath(x, sorted) ==
    IF sorted = <<>> THEN <<x>>
    ELSE IF PathLess(x, Head(sorted)) THEN <<x>> \o sorted
    ELSE <<Head(sorted)>> \o InsertPath(x, Tail(sorted))

RECURSIVE SortedPaths(_)
\* sorted(paths) of a list of paths
SortedPaths(paths) ==
    IF paths = <<>> THEN <<>>
    ELSE InsertPath(Head(paths), SortedPaths(Tail(paths)))

\* find_files without set(): sorted(map(Path, chain))
FindFilesKeepingRepeats(chained) ==
    SortedPaths([i \in DOMAIN chained |-> Path(chained[i])])

\* find_files, from the chained strings on: sorted(set(map(Path, chain)))
FindFiles(chained) ==
    SortedPaths(CHOOSE q \in Orderings({Path(x) : x \in Range(chained)}) : TRUE)

----------------------------------------------------------------------------
(* find_files() as a function: inputs drawn at Init *)

\* the directory trees: top-level directories holding at most MaxFiles files
Trees ==
    UNION {{{<<d>> : d \in D} \cup F :
                D \in {D \in SUBSET (1..MaxNames) : \A e \in F : e[1] \in D}}
            : F \in {F \in SUBSET ((1..MaxNames) \X (1..MaxNames)) :
                        Cardinality(F) <= MaxFiles}}

PatternComponents == {Star} \cup {Lit(n) : n \in 1..MaxNames}

GlobPatterns ==
    {[dot |-> dot, parts |-> parts] :
        dot \in BOOLEAN,
        parts \in {<<c>> : c \in PatternComponents}
                  \cup {<<c, d>> : c \in PatternComponents \cup {DoubleStar},
                                   d \in PatternComponents}}

FindInit ==
    /\ entries \in Trees
    /\ glob_patterns \in UNION {[1..n -> GlobPatterns] : n \in 0..MaxPatterns}
    /\ found = Pending
    /\ argsortMemo = <<>>
    /\ CliIdle
    /\ UpdIdle
    /\ ReadIdle
    /\ SegIdle
    /\ FltIdle
    /\ FluxIdle
    /\ ConvIdle
    /\ FoldIdle
    /\ ConcIdle
    /\ FxIdle
    /\ CmdIdle

\* found = find_files(glob_patterns)
CallFindFiles ==
    /\ found = Pending
    /\ \E chained \in Chain(entries, glob_patterns) :
            found' = [paths |-> FindFiles(chained)]
    /\ UNCHANGED <<entries, glob_patterns, argsortMemo>>
    /\ UNCHANGED <<cliVars, updVars, readVars, segVars, fltVars, fluxVars, convVars>>
    /\ UNCHANGED <<foldVars, concVars, fxVars, cmdVars>>

SpecFind == FindInit /\ [][CallFindFiles]_vars

----------------------------------------------------------------------------
(* Claims about find_files() *)

\* the paths of the tree that at least one of the patterns selects
Matched(tree, patterns) ==
    {e \in tree : \E k \in DOMAIN patterns : GlobMatch(patterns[k].parts, e)}

\* C21: find_files returns every path matched by at least one pattern exactly
\* once and nothing else, in ascending order, also when several patterns
\* match the same path; without patterns or without matches it returns the
\* empty list.
C21_FindFilesDeduplicatedSorted ==
    found # Pending =>
        LET paths == found.paths
            matched == Matched(entries, glob_patterns)
        IN  /\ \A e \in matched : Cardinality({i \in DOMAIN paths : paths[i] = e}) = 1
            /\ Range(paths) \subseteq matched
            /\ \A i, j \in DOMAIN paths : i < j => PathLess(paths[i], paths[j])
            /\ (glob_patterns = <<>> \/ matched = {}) => paths = <<>>

\* two patterns of the call match the same file, and more than one path is found
C21_Witness ==
    /\ found # Pending
    /\ Len(found.paths) >= 2
    /\ \E k, l \in DOMAIN glob_patterns : \E e \in entries :
            /\ k < l
            /\ glob_patterns[k] # glob_patterns[l]
            /\ Len(e) = 2
            /\ GlobMatch(glob_patterns[k].parts, e)
            /\ GlobMatch(glob_patterns[l].parts, e)

----------------------------------------------------------------------------
(* Claims about create_empty_db() and the import of no or some files *)

\* the zero-row table of a configuration: the declared columns other than the
\* timestamp column, each at its declared type
EmptyTable(cf) ==
    [dtypes |-> [c \in DOMAIN cf.columns \ {cf.timestamp_col} |-> cf.columns[c]],
     rows   |-> <<>>]

\* every source file reads without an error
AllSourcesRead(files, cf) ==
    \A i \in DOMAIN files :
        /\ Parses(files[i], cf.columns, cf.timestamp_col)
        /\ IsUnique(Instants(files[i], cf.columns, cf.timestamp_col))

\* C22: create_empty_db gives a table of zero rows whose columns are the
\* declared columns other than the timestamp column at their declared types;
\* merging the source files into the empty store succeeds whenever they all
\* read, and an import with no source files gives the empty table.
C22_EmptyStore ==
    [][/\ (pc' = "read" /\ db_file = NoFile) => db' = EmptyTable(conf)
       /\ (pc' = "merged" /\ src_files = <<>>) => new_data' = EmptyTable(conf)
       /\ (pc = "read" /\ db = EmptyTable(conf) /\ AllSourcesRead(src_files, conf))
            => /\ pc' = "merged"
               /\ db'.dtypes = EmptyTable(conf).dtypes
               /\ TsOf(db') = UNION {Range(Instants(src_files[i], conf.columns,
                                                    conf.timestamp_col))
                                        : i \in DOMAIN src_files}]_vars

\* source files with rows were merged into the store made by create_empty_db
C22_Witness ==
    /\ pc = "merged"
    /\ db_file = NoFile
    /\ Len(src_files) = 2
    /\ Len(db.rows) = 2

----------------------------------------------------------------------------
(* cli.py: two invocations of the import command on one database file *)

Invocations == {1, 2}

\* an import that merges its new data into what the file holds when it saves
MergedIntoFile(inv, file) ==
    IF file = NoFile THEN inv.db
    ELSE Update(ReadDb(file), <<inv.new_data>>,
                StableOrder(UpdateKeys(ReadDb(file), <<inv.new_data>>)))

\* the table save_db is handed: import_'s local db, whatever the database
\* file holds by the time of the call
LocalDb(inv, file) == inv.db

\* import_ of invocation p, lines 101-111: the database file is read, or an
\* empty store made
ConcReadDb(p) ==
    /\ invocations[p].pc = "start"
    /\ LET got == IF db_file = NoFile
                  THEN CreateEmptyDb(conf.columns, conf.timestamp_col)
                  ELSE ReadDb(db_file)
       IN  invocations' = [invocations EXCEPT ![p].pc = "read",
                                              ![p].db = got,
                                              ![p].before = got]
    /\ events' = Append(events, [inv |-> p, op |-> "read"])
    /\ UNCHANGED <<src_files, conf, db_file, pc, db, new_data, exit_code,
                   same_inputs, argsortMemo>>
    /\ UNCHANGED <<updVars, readVars, segVars, fltVars, fluxVars, convVars>>
    /\ UNCHANGED <<findVars, foldVars, fxVars, cmdVars>>

\* import_ of invocation p, lines 113-118: a source file or their merge raises
ConcReadFails(p) ==
    /\ invocations[p].pc = "read"
    /\ ReadSrcFilesError(invocations[p].src_files, conf) # Ok
    /\ invocations' = [invocations EXCEPT ![p].pc = "done",
                                          ![p].exit_code = "error"]
    /\ UNCHANGED <<src_files, conf, db_file, pc, db, new_data, exit_code,
                   same_inputs, argsortMemo, events>>
    /\ UNCHANGED <<updVars, readVars, segVars, fltVars, fluxVars, convVars>>
    /\ UNCHANGED <<findVars, foldVars, fxVars, cmdVars>>

\* import_ of invocation p, lines 113-127: the source files are read and
\* merged into new_data, and new_data is merged into db
ConcMerge(p) ==
    /\ invocations[p].pc = "read"
    /\ ReadSrcFilesError(invocations[p].src_files, conf) = Ok
    /\ LET inv == invocations[p]
           keys1 == ReadSrcFilesKeys(inv.src_files, conf)
       IN  \E p1 \in ArgsortChoices(argsortMemo, keys1) :
            LET new == ReadSrcFiles(inv.src_files, conf, p1)
                memo1 == Remember(argsortMemo, keys1, p1)
                keys2 == UpdateKeys(inv.db, <<new>>)
            IN  IF SchemaCheck(inv.db, <<new>>) # Ok
                THEN /\ invocations' = [invocations EXCEPT ![p].pc = "done",
                                                           ![p].exit_code = "error"]
                     /\ argsortMemo' = memo1
                ELSE \E p2 \in ArgsortChoices(memo1, keys2) :
                        /\ invocations' =
                                [invocations EXCEPT
                                    ![p].pc = "merged",
                                    ![p].new_data = new,
                                    ![p].db = Update(inv.db, <<new>>, p2)]
                        /\ argsortMemo' = Remember(memo1, keys2, p2)
    /\ UNCHANGED <<src_files, conf, db_file, pc, db, new_data, exit_code,
                   same_inputs, events>>
    /\ UNCHANGED <<updVars, readVars, segVars, fltVars, fluxVars, convVars>>
    /\ UNCHANGED <<findVars, foldVars, fxVars, cmdVars>>

\* import_ of invocation p, line 130: save_db(db, db_path); the command ends
ConcSave(p) ==
    /\ invocations[p].pc = "merged"
    /\ db_file' = SaveDb(LocalDb(invocations[p], db_file))
    /\ invocations' = [invocations EXCEPT ![p].pc = "done",
                                          ![p].exit_code = "ok"]
    /\ events' = Append(events, [inv |-> p, op |-> "save"])
    /\ UNCHANGED <<src_files, conf, pc, db, new_data, exit_code,
                   same_inputs, argsortMemo>>
    /\ UNCHANGED <<updVars, readVars, segVars, fltVars, fluxVars, convVars>>
    /\ UNCHANGED <<findVars, foldVars, fxVars, cmdVars>>

\* the database files the two invocations can find: none, or what an import
\* of one source file saved
InitialStores ==
    {NoFile} \cup UNION {{SaveDb(ReadOne(f, cf)) :
                                f \in {x \in SrcCatalog : ~IsError(ReadOne(x, cf))}}
                            : cf \in ImportConfigs}

ConcInit ==
    /\ conf \in ImportConfigs
    /\ db_file \in InitialStores
    /\ invocations \in
            [Invocations ->
                {[pc |-> "start", src_files |-> fs, db |-> Idle, before |-> Idle,
                  new_data |-> Idle, exit_code |-> "none"] : fs \in SrcFileLists}]
    /\ events = <<>>
    /\ src_files = <<>> /\ pc = "off" /\ db = Idle /\ new_data = Idle
    /\ exit_code = "none" /\ same_inputs = FALSE
    /\ argsortMemo = <<>>
    /\ UpdIdle
    /\ ReadIdle
    /\ SegIdle
    /\ FltIdle
    /\ FluxIdle
    /\ ConvIdle
    /\ FindIdle
    /\ FoldIdle
    /\ FxIdle
    /\ CmdIdle

ConcNext ==
    \E p \in Invocations :
        \/ ConcReadDb(p)
        \/ ConcReadFails(p)
        \/ ConcMerge(p)
        \/ ConcSave(p)

SpecConcurrent == ConcInit /\ [][ConcNext]_vars

----------------------------------------------------------------------------
(* Claims about concurrent imports *)

\* where in the order of events invocation p did op
When(p, op) == CHOOSE i \in DOMAIN events : events[i] = [inv |-> p, op |-> op]

BothSaved == \A p \in Invocations : invocations[p].exit_code = "ok"

\* the invocation that saved first and the one that saved last
FirstSaver == CHOOSE p \in Invocations : \A q \in Invocations : When(p, "save") <= When(q, "save")
LastSaver == CHOOSE p \in Invocations : p # FirstSaver

\* the last saver read the database file before the first saver saved
Interleaved == When(LastSaver, "read") < When(FirstSaver, "save")

\* the timestamps only the first saver contributed: in its new data, neither
\* in the new data of the last saver nor in the store the last saver read
OnlyFromFirstSaver ==
    TsOf(invocations[FirstSaver].new_data)
        \ (TsOf(invocations[LastSaver].new_data) \cup TsOf(invocations[LastSaver].before))

\* C23: the import takes no lock.  When both invocations read the database
\* file before either saves, the file finally lacks the rows only the first
\* saver contributed; when one invocation ends before the other reads, the
\* file finally has the timestamps of the new data of both.
C23_LostUpdate ==
    BothSaved =>
        IF Interleaved
        THEN TsOf(ReadDb(db_file)) \cap OnlyFromFirstSaver = {}
        ELSE TsOf(invocations[1].new_data) \cup TsOf(invocations[2].new_data)
                \subseteq TsOf(ReadDb(db_file))

\* both invocations read before either saved, and the first saver had
\* contributed a row of its own
C23_Witness ==
    /\ BothSaved
    /\ Interleaved
    /\ OnlyFromFirstSaver # {}

----------------------------------------------------------------------------
(* cli.py: the fluxes command, from the accepted measurements on *)

MaxEpisodes == 2
MaxEpisodeRows == 3

FLUXES_COLUMNS_ORDER ==
    <<"data_start", "t0", "chamber_value", "chamber_label", "gas", "c0", "vol_flux">>

ClickException(msg) == [error |-> "ClickException", msg |-> msg]
UsageError(msg) == [error |-> "UsageError", msg |-> msg]

\* (chamber_value,) = measurement[conf.measurements.chamber_col].unique()
ChamberValue(measurement) == measurement.rows[1].v.A

\* measurement[gas]: the series of one gas, or KeyError for a missing column
GasSeries(measurement, gas) ==
    IF gas \notin DOMAIN measurement.dtypes THEN KeyError(gas)
    ELSE [samples |-> [i \in DOMAIN measurement.rows |->
            [ts |-> measurement.rows[i].ts, c |-> measurement.rows[i].v[gas]]]]

\* _estimate_vol_flux(measurement, gas, conf): the results it can give
CliEstimateVolFlux(measurement, gas, cf) ==
    LET chamber_value == ChamberValue(measurement)
        delays == cf.t0_delay
        series_ == GasSeries(measurement, gas)
    IN  IF "by_chamber" \in DOMAIN delays /\ chamber_value \notin DOMAIN delays.by_chamber
        THEN {ClickException("t0_delay not defined for chamber")}
        ELSE IF IsError(series_) THEN {series_}
        ELSE EstimateVolFlux(series_.samples,
                             IF "by_chamber" \in DOMAIN delays
                             THEN delays.by_chamber[chamber_value]
                             ELSE delays.single,
                             cf.t0_margin, cf.tau_s, cf.h)

\* _get_chamber_label(chamber_value, chamber_labels)
GetChamberLabel(chamber_value, chamber_labels) ==
    IF "none" \in DOMAIN chamber_labels THEN [label |-> chamber_value]
    ELSE IF chamber_value \notin DOMAIN chamber_labels.labels
    THEN UsageError("No chamber label specified for chambers")
    ELSE [label |-> chamber_labels.labels[chamber_value]]

\* build_row(measurement, gas): the rows it can give, or the errors it raises
BuildRow(measurement, gas, cf) ==
    {IF IsError(flux_est) THEN flux_est
     ELSE LET label == GetChamberLabel(ChamberValue(measurement), cf.chamber_labels)
          IN  IF IsError(label) THEN label
              ELSE [data_start |-> flux_est.data_start,
                    t0 |-> flux_est.t0,
                    tau_s |-> flux_est.tau_s,
                    h |-> flux_est.h,
                    fit_start |-> flux_est.fit_start,
                    fit_end |-> flux_est.fit_end,
                    c0_vol_flux |-> flux_est.c0_vol_flux,
                    chamber_value |-> ChamberValue(measurement),
                    chamber_label |-> label.label,
                    gas |-> gas]
        : flux_est \in CliEstimateVolFlux(measurement, gas, cf)}

\* the pairs of the list comprehension, in its order: measurements in the
\* outer loop, conf.fluxes.gases in the inner loop
Pairs(ms, gases) ==
    [n \in 1..(Len(ms) * Len(gases)) |->
        [measurement |-> ms[((n - 1) \div Len(gases)) + 1],
         gas |-> gases[((n - 1) % Len(gases)) + 1]]]

RECURSIVE BuildRows(_, _)
\* [build_row(measurement, gas) for measurement in ... for gas in ...]: the
\* lists it can give; the first exception ends the comprehension
BuildRows(pairs, cf) ==
    IF pairs = <<>> THEN {[records |-> <<>>]}
    ELSE UNION {IF IsError(row) THEN {row}
                ELSE {IF IsError(rest) THEN rest
                      ELSE [records |-> <<row>> \o rest.records]
                        : rest \in BuildRows(Tail(pairs), cf)}
                    : row \in BuildRow(Head(pairs).measurement, Head(pairs).gas, cf)}

\* result_table[_FLUXES_COLUMNS_ORDER]: a frame made from no records has no
\* columns and the selection raises KeyError
SelectFluxesColumns(records) ==
    IF records = <<>> THEN KeyError("None of _FLUXES_COLUMNS_ORDER are in the [columns]")
    ELSE [columns |-> FLUXES_COLUMNS_ORDER,
          rows |-> [i \in DOMAIN records |->
                        [data_start |-> records[i].data_start,
                         t0 |-> records[i].t0,
                         chamber_value |-> records[i].chamber_value,
                         chamber_label |-> records[i].chamber_label,
                         gas |-> records[i].gas,
                         c0_vol_flux |-> records[i].c0_vol_flux]]]

\* _estimate_fluxes_result_table(measurements, conf): the tables it can
\* return and the errors it can raise
EstimateFluxesResultTable(ms, cf) ==
    {IF IsError(built) THEN built ELSE SelectFluxesColumns(built.records)
        : built \in BuildRows(Pairs(ms, cf.gases), cf)}

\* the fluxes command, lines 188-195: the table is estimated and written
\* over fluxes.csv
Fluxes ==
    /\ fluxes_result = Pending
    /\ \E result \in EstimateFluxesResultTable(fluxes_measurements, fluxes_conf) :
        IF IsError(result)
        THEN /\ fluxes_result' = result
             /\ UNCHANGED fluxes_file
        ELSE /\ fluxes_file' = result
             /\ fluxes_result' = Ok
    /\ UNCHANGED <<fluxes_measurements, fluxes_conf, argsortMemo>>
    /\ UNCHANGED <<cliVars, updVars, readVars, segVars, fltVars, fluxVars, convVars>>
    /\ UNCHANGED <<findVars, foldVars, concVars, cmdVars>>

\* an accepted measurement: the k-th of the run, in chamber ch, with n rows
\* one second apart and the gas columns CO2 and N2O
Episode(k, ch, n) ==
    [dtypes |-> [A |-> "str", CO2 |-> "float64", N2O |-> "float64"],
     rows |-> [i \in 1..n |->
                [ts |-> 10 * (k - 1) + i - 1,
                 v |-> [A |-> ch, CO2 |-> i % 2, N2O |-> 1]]]]

\* the lists of accepted measurements, in time order
EpisodeLists ==
    UNION {{[k \in 1..n |-> Episode(k, ch[k], len[k])] :
                ch \in [1..n -> {"A", "B"}], len \in [1..n -> 1..MaxEpisodeRows]}
            : n \in 0..MaxEpisodes}

\* conf.fluxes.gases: CH4 is not a column of the database
GasLists ==
    {<<>>} \cup {<<g>> : g \in {"CO2", "N2O", "CH4"}}
           \cup {gs \in {"CO2", "N2O", "CH4"} \X {"CO2", "N2O"} : gs[1] # gs[2]}

FluxesConfigs ==
    {[gases |-> gases, t0_delay |-> delay, t0_margin |-> 0, tau_s |-> 1, h |-> hh,
      chamber_labels |-> labels] :
        gases \in GasLists,
        delay \in {[single |-> 0], [single |-> 2], [by_chamber |-> [A |-> 0, B |-> 2]],
                   [by_chamber |-> ("A" :> 0)]},
        hh \in {0, 1},
        labels \in {[none |-> TRUE], [labels |-> ("A" :> "plot 1")]}}

\* what fluxes.csv holds before the run: nothing, or the table of a run before
OldFluxesFile == [columns |-> FLUXES_COLUMNS_ORDER, rows |-> <<>>]

FxInit ==
    /\ fluxes_measurements \in EpisodeLists
    /\ fluxes_conf \in FluxesConfigs
    /\ fluxes_file \in {NoFile, OldFluxesFile}
    /\ fluxes_result = Pending
    /\ argsortMemo = <<>>
    /\ CliIdle
    /\ UpdIdle
    /\ ReadIdle
    /\ SegIdle
    /\ FltIdle
    /\ FluxIdle
    /\ ConvIdle
    /\ FindIdle
    /\ FoldIdle
    /\ ConcIdle
    /\ CmdIdle

SpecFluxes == FxInit /\ [][Fluxes]_vars

----------------------------------------------------------------------------
(* Claims about the fluxes command *)

\* the estimate of the n-th pair fails
PairFails(n) ==
    LET pair == Pairs(fluxes_measurements, fluxes_conf.gases)[n]
    IN  \A row \in BuildRow(pair.measurement, pair.gas, fluxes_conf) : IsError(row)

FailingPairs ==
    {n \in DOMAIN Pairs(fluxes_measurements, fluxes_conf.gases) : PairFails(n)}

\* C24: when the estimate of a pair fails the command ends with the failure
\* of the first such pair and leaves fluxes.csv as it was; when every pair
\* succeeds the command writes one row per accepted measurement and gas,
\* measurements in time order and gases in configured order.
C24_FailFast ==
    [][fluxes_result' # fluxes_result =>
        IF FailingPairs # {}
        THEN /\ IsError(fluxes_result')
             /\ LET pair == Pairs(fluxes_measurements, fluxes_conf.gases)[Min(FailingPairs)]
                IN  fluxes_result' \in BuildRow(pair.measurement, pair.gas, fluxes_conf)
             /\ fluxes_file' = fluxes_file
        ELSE /\ fluxes_result' = Ok
             /\ fluxes_file' # NoFile
             /\ LET pairs == Pairs(fluxes_measurements, fluxes_conf.gases)
                IN  /\ Len(fluxes_file'.rows) = Len(pairs)
                    /\ \A n \in DOMAIN pairs :
                        /\ fluxes_file'.rows[n].data_start = pairs[n].measurement.rows[1].ts
                        /\ fluxes_file'.rows[n].gas = pairs[n].gas]_vars

----------------------------------------------------------------------------
(* Claims about the yielded measurements and the partition into segments *)

\* the row of seg_db that has the timestamp ts
RowIndex(ts) == CHOOSE i \in DOMAIN seg_db.rows : seg_db.rows[i].ts = ts

\* rows i and i + 1 of seg_db belong to different segments by the claim's
\* words: another chamber value, or more than max_gap apart
Separated(i) ==
    \/ seg_db.rows[i].v.A # seg_db.rows[i + 1].v.A
    \/ seg_db.rows[i + 1].ts - seg_db.rows[i].ts > max_gap

\* C25: every yielded measurement has one chamber value in all its rows, no
\* two consecutive rows more than max_gap apart and a duration within
\* [min_duration, max_duration]; and it is maximal: the row of the input just
\* before its first row and the one just after its last row, when they
\* exist, have another chamber value or lie more than max_gap away.
C25_YieldedEpisodes ==
    \A k \in DOMAIN yielded :
        LET rows == yielded[k].rows
            first == RowIndex(rows[1].ts)
            last == RowIndex(rows[Len(rows)].ts)
        IN  /\ rows = SubSeq(seg_db.rows, first, last)
            /\ \A i \in DOMAIN rows : rows[i].v.A = rows[1].v.A
            /\ \A i \in 1..(Len(rows) - 1) : rows[i + 1].ts - rows[i].ts <= max_gap
            /\ min_duration <= rows[Len(rows)].ts - rows[1].ts
            /\ rows[Len(rows)].ts - rows[1].ts <= max_duration
            /\ first > 1 => Separated(first - 1)
            /\ last < Len(seg_db.rows) => Separated(last)

\* a measurement of several rows was yielded whose neighbour before is close
\* in time but of another chamber, and whose neighbour after is of the same
\* chamber but more than max_gap away
C25_Witness ==
    \E k \in DOMAIN yielded :
        LET rows == yielded[k].rows
            first == RowIndex(rows[1].ts)
            last == RowIndex(rows[Len(rows)].ts)
        IN  /\ Len(rows) >= 2
            /\ first > 1
            /\ last < Len(seg_db.rows)
            /\ rows[1].ts - seg_db.rows[first - 1].ts <= max_gap
            /\ seg_db.rows[last + 1].v.A = rows[1].v.A

\* C26: the segments partition the input table: every row is in exactly one
\* segment, a segment is a run of consecutive rows in their order, and the
\* accepted segments, no others, are yielded in ascending order of their first
\* timestamp, each once.
C26_SegmentsPartitionInput ==
    /\ Concat(grouped) = SubSeq(seg_db.rows, 1, TotalLen(grouped))
    /\ seg_pc = "exhausted" => Concat(grouped) = seg_db.rows
    /\ \A k \in DOMAIN grouped : grouped[k] # <<>>
    /\ \A i, j \in DOMAIN yielded : i < j => yielded[i].rows[1].ts < yielded[j].rows[1].ts
    /\ \A i \in DOMAIN yielded :
        \E k \in DOMAIN grouped : grouped[k] = yielded[i].rows /\ measurement_metas[k].accept
    /\ Len(yielded) = Cardinality({k \in DOMAIN measurement_metas : measurement_metas[k].accept})

\* a table was cut into three segments or more, of which some were yielded
\* and some were not
C26_Witness ==
    /\ seg_pc = "exhausted"
    /\ Len(grouped) >= 3
    /\ Len(yielded) >= 2
    /\ Len(yielded) < Len(grouped)

----------------------------------------------------------------------------
(* Claim about filter_db() without criteria *)

\* no criterion is configured: there is no Filter at all, or every Filter
\* leaves min_value, max_value, allow_only and disallow unset
NoCriterion(flts) == \A c \in DOMAIN flts : DOMAIN flts[c] = {}

\* C27: without any criterion (no Filter configured, or Filters that set
\* none of min_value, max_value, allow_only, disallow) filter_db returns the
\* table it was given, with every row, whatever the size of the table.
C27_NoCriterionKeepsAllRows ==
    (filtered # Pending /\ NoCriterion(filters)) => filtered = flt_db

----------------------------------------------------------------------------
(* Claim about update() with several batches *)

----------------------------------------------------------------------------
(* cli.py: imports with the configuration edited between invocations *)

\* the [import] sections of the session: the one of Init, column B declared
\* as another type, and the timestamp column T declared as uint8 and as bool
SessionConfigs ==
    {[columns |-> [T |-> t, B |-> b], timestamp_col |-> "T"] :
        <<t, b>> \in {<<"float64", "uint8">>, <<"float64", "uint16">>,
                      <<"uint8", "uint8">>, <<"bool", "uint8">>}}

\* between two invocations the configuration file is edited
EditConfig ==
    /\ pc = "idle"
    /\ \E cf \in SessionConfigs :
        /\ cf # conf
        /\ conf' = cf
    /\ same_inputs' = FALSE
    /\ UNCHANGED <<src_files, db_file, pc, db, new_data, exit_code, argsortMemo>>
    /\ UNCHANGED <<updVars, readVars, segVars, fltVars, fluxVars, convVars>>
    /\ UNCHANGED <<findVars, foldVars, concVars, fxVars, cmdVars>>

SessionInit ==
    /\ src_files = <<>>
    /\ conf \in SessionConfigs
    /\ db_file = NoFile
    /\ pc = "idle"
    /\ db = Idle
    /\ new_data = Idle
    /\ exit_code = "none"
    /\ same_inputs = FALSE
    /\ argsortMemo = <<>>
    /\ UpdIdle
    /\ ReadIdle
    /\ SegIdle
    /\ FltIdle
    /\ FluxIdle
    /\ ConvIdle
    /\ FindIdle
    /\ FoldIdle
    /\ ConcIdle
    /\ FxIdle
    /\ CmdIdle

SessionNext ==
    \/ WriteSourceFiles
    \/ EditConfig
    \/ ImportReadDb
    \/ ImportReadFails
    \/ ImportMerge
    \/ ImportSave

SpecSession == SessionInit /\ [][SessionNext]_vars

----------------------------------------------------------------------------
(* Claim about failed imports *)

\* the declared type of the timestamp column is one convert_datetime takes
TimestampTypeSupported(cf) ==
    \/ cf.columns[cf.timestamp_col] = "float64"
    \/ Kind(cf.columns[cf.timestamp_col]) \in {"i", "u", "O"}

\* the new data has not the schema of the stored table
SchemaConflict(file, cf) ==
    file # NoFile /\ ReadDb(file).dtypes # EmptyTable(cf).dtypes

\* the import of these files with this configuration into this database file
\* fails: a source file does not parse or repeats a timestamp, the timestamp
\* type is not supported, or the new data conflicts with the stored schema
ImportFails(files, cf, file) ==
    \/ ~TimestampTypeSupported(cf)
    \/ ~AllSourcesRead(files, cf)
    \/ SchemaConflict(file, cf)

\* C29: an import that fails (a source file does not parse, or the new data
\* conflicts with the stored schema) ends with an error and without save_db:
\* the database file stays what it was, and is not created when there was
\* none.
C29_FailedImportLeavesStore ==
    [][ImportFails(src_files, conf, db_file) =>
            /\ db_file' = db_file
            /\ pc = "read" => (pc' = "idle" /\ exit_code' = "error")]_vars

\* an import has just failed on a schema conflict with the stored table,
\* which is still in the database file
C29_Witness ==
    /\ pc = "idle"
    /\ exit_code = "error"
    /\ src_files # <<>>
    /\ AllSourcesRead(src_files, conf)
    /\ SchemaConflict(db_file, conf)
    /\ Len(db_file.rows) > 0

----------------------------------------------------------------------------
(* cli.py: the commands that require the database file *)

DB_FILENAME == "database.feather"
FLUXES_FILENAME == "fluxes.csv"
FLUX_FITS_DIR == "plots/flux-fits"
FLUX_TIME_SERIES_DIR == "plots/flux-time-series"

OutputNames == {FLUXES_FILENAME, FLUX_FITS_DIR, FLUX_TIME_SERIES_DIR}
CommandNames == {"info", "fluxes", "flux_fits", "flux_time_series"}

NoDatabaseFound ==
    [error |-> "ClickException", msg |-> "No database found at", path |-> DB_FILENAME]

\* a command that runs its body whether the database file exists or not
NoRequirement(file) == Ok

\* require_database_file: the check made before the body of the command
RequireDatabaseFile(file) == IF file = NoFile THEN NoDatabaseFound ELSE Ok

\* an exception of the body that depends on the data or on the rest of the
\* configuration (measurement segmentation, flux estimates, labels, plots)
BodyError == [error |-> "Exception", msg |-> "raised by the body of the command"]

\* the body of a command: how it can end and what it leaves of the outputs.
\* Every body first reads the database (_iter_measurements); fluxes writes
\* fluxes.csv at its end; the plot commands remove and recreate their
\* directory once the data is ready and then save the figures one by one.
CommandBody(name, file, outs) ==
    IF file = NoFile
    THEN {[result |-> [error |-> "FileNotFoundError", msg |-> DB_FILENAME], outputs |-> outs],
          [result |-> ClickException("The config file has no section"), outputs |-> outs]}
    ELSE {[result |-> BodyError, outputs |-> outs],
          [result |-> ClickException("The config file has no section"), outputs |-> outs]}
         \cup
         CASE name = "info" -> {[result |-> Ok, outputs |-> outs]}
           [] name = "fluxes" ->
                {[result |-> Ok, outputs |-> [outs EXCEPT ![FLUXES_FILENAME] = TRUE]]}
           [] name = "flux_fits" ->
                {[result |-> r, outputs |-> [outs EXCEPT ![FLUX_FITS_DIR] = TRUE]]
                    : r \in {Ok, BodyError}}
           [] name = "flux_time_series" ->
                {[result |-> r, outputs |-> [outs EXCEPT ![FLUX_TIME_SERIES_DIR] = TRUE]]
                    : r \in {Ok, BodyError}}

\* one of the commands info, fluxes, plot flux-fits, plot flux-time-series
RunCommand(name) ==
    /\ pc = "idle"
    /\ LET required == RequireDatabaseFile(db_file)
       IN  IF IsError(required)
           THEN /\ command' = [name |-> name, result |-> required]
                /\ UNCHANGED outputs
           ELSE \E o \in CommandBody(name, db_file, outputs) :
                    /\ command' = [name |-> name, result |-> o.result]
                    /\ outputs' = o.outputs
    /\ UNCHANGED <<cliVars, argsortMemo>>
    /\ UNCHANGED <<updVars, readVars, segVars, fltVars, fluxVars, convVars>>
    /\ UNCHANGED <<findVars, foldVars, concVars, fxVars>>

\* a database file is copied to the place of the database
CopyDatabaseIn ==
    /\ pc = "idle"
    /\ \E file \in InitialStores \ {NoFile, db_file} : db_file' = file
    /\ same_inputs' = FALSE
    /\ UNCHANGED <<src_files, conf, pc, db, new_data, exit_code, argsortMemo>>
    /\ UNCHANGED <<updVars, readVars, segVars, fltVars, fluxVars, convVars>>
    /\ UNCHANGED <<findVars, foldVars, concVars, fxVars, cmdVars>>

\* the database file is removed
RemoveDatabaseFile ==
    /\ pc = "idle"
    /\ db_file # NoFile
    /\ db_file' = NoFile
    /\ same_inputs' = FALSE
    /\ UNCHANGED <<src_files, conf, pc, db, new_data, exit_code, argsortMemo>>
    /\ UNCHANGED <<updVars, readVars, segVars, fltVars, fluxVars, convVars>>
    /\ UNCHANGED <<findVars, foldVars, concVars, fxVars, cmdVars>>

\* the session starts with an empty output directory
CmdInit ==
    /\ src_files \in SrcFileLists
    /\ conf \in ImportConfigs
    /\ db_file = NoFile
    /\ pc = "idle"
    /\ db = Idle
    /\ new_data = Idle
    /\ exit_code = "none"
    /\ same_inputs = FALSE
    /\ outputs = [o \in OutputNames |-> FALSE]
    /\ command = [name |-> "none", result |-> Ok]
    /\ argsortMemo = <<>>
    /\ UpdIdle
    /\ ReadIdle
    /\ SegIdle
    /\ FltIdle
    /\ FluxIdle
    /\ ConvIdle
    /\ FindIdle
    /\ FoldIdle
    /\ ConcIdle
    /\ FxIdle

CmdNext ==
    \/ ImportReadDb
    \/ ImportReadFails
    \/ ImportMerge
    \/ ImportSave
    \/ \E name \in CommandNames : RunCommand(name)
    \/ CopyDatabaseIn
    \/ RemoveDatabaseFile

SpecCommands == CmdInit /\ [][CmdNext]_vars

----------------------------------------------------------------------------
(* Claim about the commands that require the database file *)

====
